---- MODULE Spec2Model ----
(***************************************************************************)
(* Resolution-and-assembly core of NewsKG: the entity dictionary           *)
(* (dictionaries/loader.py), the entity resolver                           *)
(* (extractors/entity_resolver.py), the predicate catalog                  *)
(* (extractors/predicate_normalizer.py, normalize_predicates.py,           *)
(* merge_predicate_duplicates.py) and the triple-based graph assembler     *)
(* (pipeline/rdf_generator_v2.py).                                         *)
(*                                                                         *)
(* Representation.  A Python str is a sequence of characters; a character  *)
(* is a one-character string ("a", "_", " ") or, for a CJK character, the  *)
(* name of its code point ("U6C0F").  A Python dict is a sequence of       *)
(* [k, v] records in insertion order (PyPut keeps the position of a key    *)
(* that is overwritten, as dict does).  hashlib.md5(...).hexdigest()[:n]   *)
(* is modelled as an injective rendering of its argument (Md5Hex): two     *)
(* texts share a digest only when they are equal.  A float confidence c is *)
(* the integer 100*c.                                                      *)
(***************************************************************************)
EXTENDS Integers, Sequences, FiniteSets, TLC

VARIABLES
    loader,          \* DictionaryLoader: organizations, persons, places, _text_to_entity
    new_entities,    \* EntityResolver.new_entities, one per resolver instance
    call,            \* the operation executed last, its arguments and its return value
    resolve_log,     \* per resolver instance: every (text, hint, id, confidence, uri) returned
    n_calls,         \* number of operations executed (bounded)
    predicates,      \* PredicateNormalizer.predicates       (dict id -> PredicateEntry)
    alias_to_id,     \* PredicateNormalizer.alias_to_id      (dict text -> id)
    unknown_predicates, \* PredicateNormalizer.unknown_predicates (Counter)
    master_file,     \* content of predicate_master.json
    graph,           \* TripleBasedRDFGenerator.graph (a set of RDF triples)
    entity_cache,    \* TripleBasedRDFGenerator.entity_cache
    triple_cache,    \* TripleBasedRDFGenerator.triple_cache
    predicate_uris,  \* TripleBasedRDFGenerator.predicate_uris
    first_write,     \* the first add_triple call of each (text, hints) since the last reset
    procs,           \* the merge runs on the master file: pc, kind, groups, data, position
    corpus,          \* the lines of the RDF file that the retroactive rewrite reads
    rewrite_mapping, \* the mapping of the rewrite: [rewrite, map]
    processors,      \* the TriplePipelineProcessor instances of the process
    _resolver,       \* entity_resolver._resolver: None or <<address of a resolver>>
    _normalizer      \* predicate_normalizer._normalizer: None or <<address of a normalizer>>

vars == <<loader, new_entities, call, resolve_log, n_calls, predicates, alias_to_id,
          unknown_predicates, master_file, graph, entity_cache, triple_cache,
          predicate_uris, first_write, procs, corpus,
          rewrite_mapping, processors, _resolver, _normalizer>>

resolverVars == <<new_entities, resolve_log>>
catalogVars == <<predicates, alias_to_id, unknown_predicates>>
graphVars == <<graph, entity_cache, triple_cache, predicate_uris, first_write>>
rewriteVars == <<corpus, rewrite_mapping>>
processorVars == <<processors, _resolver, _normalizer>>

----
\* Python str operations

Whitespace == {" ", "\t", "\n", "U3000"}

UpperCase == <<"A","B","C","D","E","F","G","H","I","J","K","L","M",
               "N","O","P","Q","R","S","T","U","V","W","X","Y","Z">>
LowerCase == <<"a","b","c","d","e","f","g","h","i","j","k","l","m",
               "n","o","p","q","r","s","t","u","v","w","x","y","z">>
Digits == {"0","1","2","3","4","5","6","7","8","9"}

\* the character class [a-zA-Z0-9_]
WordChars == {UpperCase[i] : i \in 1..26} \cup {LowerCase[i] : i \in 1..26}
             \cup Digits \cup {"_"}

\* str.lower() on one character
LowerChar(c) ==
    IF \E i \in 1..26 : UpperCase[i] = c
    THEN LowerCase[CHOOSE i \in 1..26 : UpperCase[i] = c]
    ELSE c

\* str.lower()
Lower(s) == [i \in 1..Len(s) |-> LowerChar(s[i])]

\* str.replace(old, new) for a one-character old and new
Replace(s, old, new) == [i \in 1..Len(s) |-> IF s[i] = old THEN new ELSE s[i]]

\* sub occurs in s at index i
OccursAt(sub, s, i) ==
    /\ i + Len(sub) - 1 <= Len(s)
    /\ \A k \in 1..Len(sub) : s[i + k - 1] = sub[k]

\* the Python expression  sub in s  ("" is in every string)
In(sub, s) == \E i \in 1..(Len(s) - Len(sub) + 1) : OccursAt(sub, s, i)

EndsWith(s, suf) == Len(suf) <= Len(s) /\ OccursAt(suf, s, Len(s) - Len(suf) + 1)

\* str.strip()
Strip(s) ==
    LET keep == {i \in 1..Len(s) : s[i] \notin Whitespace}
    IN  IF keep = {} THEN <<>>
        ELSE LET lo == CHOOSE i \in keep : \A j \in keep : i <= j
                 hi == CHOOSE i \in keep : \A j \in keep : j <= i
             IN  SubSeq(s, lo, hi)

\* re.match(r'^[a-zA-Z0-9_]+$', s): '$' also matches before one trailing newline
IsWord(s) ==
    LET body == IF s # <<>> /\ s[Len(s)] = "\n" THEN SubSeq(s, 1, Len(s) - 1) ELSE s
    IN  body # <<>> /\ \A i \in 1..Len(body) : body[i] \in WordChars

\* re.sub(pat + '$', '', s) for a literal pat: '$' matches at the end of s and
\* before a trailing newline
SubSuffix(pat, s) ==
    IF EndsWith(s, pat) THEN SubSeq(s, 1, Len(s) - Len(pat))
    ELSE IF s # <<>> /\ s[Len(s)] = "\n" /\ EndsWith(SubSeq(s, 1, Len(s) - 1), pat)
         THEN SubSeq(s, 1, Len(s) - 1 - Len(pat)) \o <<"\n">>
         ELSE s

\* re.search(pat + '$', s) for a literal pat
SearchSuffix(pat, s) == SubSuffix(pat, s) # s

\* hashlib.md5(s.encode()).hexdigest()[:n], as one token
Md5Hex(s) == <<ToString(s)>>

----
\* Python dict, in insertion order

PyHas(d, k) == \E i \in 1..Len(d) : d[i].k = k

PyGet(d, k) == d[CHOOSE i \in 1..Len(d) : d[i].k = k].v

PyPut(d, k, v) ==
    IF PyHas(d, k)
    THEN [i \in 1..Len(d) |-> IF d[i].k = k THEN [k |-> k, v |-> v] ELSE d[i]]
    ELSE Append(d, [k |-> k, v |-> v])

PyValues(d) == [i \in 1..Len(d) |-> d[i].v]

PyKeys(d) == [i \in 1..Len(d) |-> d[i].k]

PyKeySet(d) == {d[i].k : i \in 1..Len(d)}

----
\* dictionaries/loader.py

T_organization == <<"o","r","g","a","n","i","z","a","t","i","o","n">>
T_person == <<"p","e","r","s","o","n">>
T_place == <<"p","l","a","c","e">>
T_other == <<"o","t","h","e","r">>

\* DictionaryEntry(id, label, aliases, entity_type, extra); extra is never read
\* by the resolver or the assembler and is left out
DictionaryEntry(raw, type) ==
    [id |-> raw.id, label |-> raw.label, aliases |-> raw.aliases, entity_type |-> type]

RECURSIVE register_aliases(_, _, _)
register_aliases(t2e, entry, i) ==
    IF i > Len(entry.aliases) THEN t2e
    ELSE register_aliases(
             IF entry.aliases[i] # <<>> THEN PyPut(t2e, entry.aliases[i], entry) ELSE t2e,
             entry, i + 1)

\* a plausible slip: the first entry to register a text keeps it (setdefault)
RECURSIVE register_aliases_first(_, _, _)
register_aliases_first(t2e, entry, i) ==
    IF i > Len(entry.aliases) THEN t2e
    ELSE register_aliases_first(
             IF entry.aliases[i] # <<>> /\ ~PyHas(t2e, entry.aliases[i])
             THEN PyPut(t2e, entry.aliases[i], entry) ELSE t2e,
             entry, i + 1)

register_text_mapping_first(t2e, entry) ==
    register_aliases_first(
        IF PyHas(t2e, entry.label) THEN t2e ELSE PyPut(t2e, entry.label, entry), entry, 1)

\* DictionaryLoader._register_text_mapping: the label, then every non-empty alias;
\* a text registered before is overwritten
register_text_mapping(t2e, entry) ==
    register_aliases(PyPut(t2e, entry.label, entry), entry, 1)

\* the loop of _load_organizations / _load_persons / _load_places:
\* st = [byid |-> the class's dict, t2e |-> _text_to_entity]
RECURSIVE load_class(_, _, _, _)
load_class(st, raws, type, i) ==
    IF i > Len(raws) THEN st
    ELSE LET entry == DictionaryEntry(raws[i], type)
         IN  load_class([byid |-> PyPut(st.byid, entry.id, entry),
                         t2e |-> register_text_mapping(st.t2e, entry)],
                        raws, type, i + 1)

\* DictionaryLoader.__init__ / _load_all over the three class files
DictionaryLoader(src) ==
    LET o == load_class([byid |-> <<>>, t2e |-> <<>>], src.organizations, T_organization, 1)
        p == load_class([byid |-> <<>>, t2e |-> o.t2e], src.persons, T_person, 1)
        l == load_class([byid |-> <<>>, t2e |-> p.t2e], src.places, T_place, 1)
    IN  [organizations |-> o.byid, persons |-> p.byid, places |-> l.byid,
         text_to_entity |-> l.t2e, dictionaries_dir |-> src]

\* a dictionary file as found on disk: whether its text parses as JSON, and the
\* objects of its list; an object may lack "id" or "label"
JsonFile(parses, records) == [parses |-> parses, records |-> records]

\* the three lists of a directory whose files all parse
Parsed(dir) ==
    [organizations |-> dir.organizations.records, persons |-> dir.persons.records,
     places |-> dir.places.records]

\* one of _load_organizations / _load_persons / _load_places on a file:
\* st = [raised, byid, t2e]; json.load raises on a text that does not parse, and
\* org["id"] / org["label"] raise on an object without that key, after the
\* objects before it were stored
RECURSIVE load_file(_, _, _, _)
load_file(st, file, type, i) ==
    IF ~file.parses THEN [st EXCEPT !.raised = TRUE]
    ELSE IF i > Len(file.records) THEN st
    ELSE IF ~({"id", "label"} \subseteq DOMAIN file.records[i]) THEN [st EXCEPT !.raised = TRUE]
    ELSE LET entry == DictionaryEntry(file.records[i], type)
         IN  load_file([raised |-> FALSE, byid |-> PyPut(st.byid, entry.id, entry),
                        t2e |-> register_text_mapping(st.t2e, entry)],
                       file, type, i + 1)

\* the loader object as _load_all leaves it: the exception of one _load_* ends
\* _load_all, the dicts of the files after it stay empty
load_all_from(o, p, l, dir) ==
    [raised |-> o.raised \/ p.raised \/ l.raised,
     self |-> [organizations |-> o.byid, persons |-> p.byid, places |-> l.byid,
               text_to_entity |-> IF o.raised THEN o.t2e ELSE IF p.raised THEN p.t2e ELSE l.t2e,
               dictionaries_dir |-> dir]]

load_places(o, p, dir) ==
    load_all_from(o, p,
                  IF o.raised \/ p.raised THEN [raised |-> FALSE, byid |-> << >>, t2e |-> p.t2e]
                  ELSE load_file([raised |-> FALSE, byid |-> << >>, t2e |-> p.t2e],
                                 dir.places, T_place, 1),
                  dir)

load_persons(o, dir) ==
    load_places(o,
                IF o.raised THEN [raised |-> FALSE, byid |-> << >>, t2e |-> o.t2e]
                ELSE load_file([raised |-> FALSE, byid |-> << >>, t2e |-> o.t2e],
                               dir.persons, T_person, 1),
                dir)

\* DictionaryLoader._load_all on the files of dir: [raised, self]
load_all(dir) ==
    load_persons(load_file([raised |-> FALSE, byid |-> << >>, t2e |-> << >>],
                           dir.organizations, T_organization, 1),
                 dir)

None == << >>

\* a plausible slip: a file that fails to load is skipped (try/except around
\* the load) and the loader is returned with what was read
new_loader_lenient(dir) ==
    [raised |-> FALSE, ret |-> load_all(dir).self, discarded |-> None]

\* the expression DictionaryLoader(dir): the exception of __init__ propagates
\* and no instance is returned; the object under construction is dropped
new_loader(dir) ==
    IF load_all(dir).raised
    THEN [raised |-> TRUE, ret |-> None, discarded |-> load_all(dir).self]
    ELSE [raised |-> FALSE, ret |-> load_all(dir).self, discarded |-> None]

\* get_loader() with the module-level _loader and the files of the default
\* directory: [raised, ret, discarded, _loader]
get_loader(_loader, dir) ==
    IF _loader = None
    THEN [raised |-> new_loader(dir).raised, ret |-> new_loader(dir).ret,
          discarded |-> new_loader(dir).discarded, _loader |-> new_loader(dir).ret]
    ELSE [raised |-> FALSE, ret |-> _loader, discarded |-> None, _loader |-> _loader]

\* DictionaryLoader.find_entity: None is <<>>, an entry e is <<e>>
find_entity(ld, text) ==
    IF PyHas(ld.text_to_entity, text) THEN <<PyGet(ld.text_to_entity, text)>> ELSE <<>>

\* DictionaryLoader.get_all_entries
get_all_entries(ld) ==
    PyValues(ld.organizations) \o PyValues(ld.persons) \o PyValues(ld.places)

\* the place of x in a list sorted by rank: behind every element whose rank is
\* not above its own
RECURSIVE insert_sorted(_, _, _)
insert_sorted(sorted, x, i) ==
    IF i > Len(sorted) THEN Append(sorted, x)
    ELSE IF x.rank < sorted[i].rank
         THEN SubSeq(sorted, 1, i - 1) \o <<x>> \o SubSeq(sorted, i, Len(sorted))
         ELSE insert_sorted(sorted, x, i + 1)

\* sorted(list, key=...) and list.sort(key=...) on a list of [rank, item]: a
\* stable sort, ascending in rank
RECURSIVE stable_sort(_, _, _)
stable_sort(sorted, list, i) ==
    IF i > Len(list) THEN sorted
    ELSE stable_sort(insert_sorted(sorted, list[i], 1), list, i + 1)

Items(ranked) == [i \in 1..Len(ranked) |-> ranked[i].item]

\* a plausible slip: the keys are tried shortest first
sorted_keys_shortest_first(ld) ==
    Items(stable_sort(<< >>,
                      [i \in 1..Len(ld.text_to_entity) |->
                          [rank |-> Len(ld.text_to_entity[i].k),
                           item |-> ld.text_to_entity[i].k]],
                      1))

\* find_entities_in_text, line 148:
\* sorted(self._text_to_entity.keys(), key=len, reverse=True); reverse=True keeps
\* the order of keys of equal length
sorted_keys(ld) ==
    Items(stable_sort(<< >>,
                      [i \in 1..Len(ld.text_to_entity) |->
                          [rank |-> 0 - Len(ld.text_to_entity[i].k),
                           item |-> ld.text_to_entity[i].k]],
                      1))

\* str.find(key, start), positions counted from 0; -1 when key does not occur at
\* or after start ("" occurs at every position up to len(text))
str_find(text, key, start) ==
    LET at == {p \in start..Len(text) : OccursAt(key, text, p + 1)}
    IN  IF at = {} THEN -1 ELSE CHOOSE p \in at : \A q \in at : p <= q

\* find_entities_in_text, lines 161-164: the span [pos, end_pos) overlaps a
\* matched span
is_overlapping(matched_positions, pos, end_pos) ==
    \E mp \in matched_positions : pos < mp[2] /\ end_pos > mp[1]

\* a plausible slip: every occurrence is taken, overlapping or not
RECURSIVE scan_key_unchecked(_, _, _, _, _)
scan_key_unchecked(st, ld, text, key, start) ==
    IF str_find(text, key, start) = -1 THEN st
    ELSE scan_key_unchecked(
             [results |-> Append(st.results,
                                 <<str_find(text, key, start),
                                   str_find(text, key, start) + Len(key),
                                   PyGet(ld.text_to_entity, key)>>),
              matched_positions |-> st.matched_positions
                  \cup {<<str_find(text, key, start), str_find(text, key, start) + Len(key)>>}],
             ld, text, key, str_find(text, key, start) + 1)

\* find_entities_in_text, lines 153-171: the while loop for one key, from start;
\* st = [results, matched_positions]
RECURSIVE scan_key(_, _, _, _, _)
scan_key(st, ld, text, key, start) ==
    IF str_find(text, key, start) = -1 THEN st
    ELSE scan_key(
             IF is_overlapping(st.matched_positions, str_find(text, key, start),
                               str_find(text, key, start) + Len(key))
             THEN st
             ELSE [results |-> Append(st.results,
                                      <<str_find(text, key, start),
                                        str_find(text, key, start) + Len(key),
                                        PyGet(ld.text_to_entity, key)>>),
                   matched_positions |-> st.matched_positions
                       \cup {<<str_find(text, key, start),
                               str_find(text, key, start) + Len(key)>>}],
             ld, text, key, str_find(text, key, start) + 1)

\* find_entities_in_text, line 152: the loop over the sorted keys
RECURSIVE scan_keys(_, _, _, _, _)
scan_keys(st, ld, text, keys, i) ==
    IF i > Len(keys) THEN st
    ELSE scan_keys(scan_key(st, ld, text, keys[i], 0), ld, text, keys, i + 1)

\* DictionaryLoader.find_entities_in_text: a list of <<start, end, entry>>
\* find_entities_in_text, line 174: results.sort(key=lambda x: x[0])
sort_results(results) ==
    Items(stable_sort(<< >>,
                      [i \in 1..Len(results) |-> [rank |-> results[i][1], item |-> results[i]]],
                      1))

\* a plausible slip: the results are returned in the order they were found
find_entities_in_text_unsorted(ld, text) ==
    scan_keys([results |-> << >>, matched_positions |-> {}],
              ld, text, sorted_keys(ld), 1).results

\* DictionaryLoader.find_entities_in_text: a list of <<start, end, entry>>
find_entities_in_text(ld, text) ==
    sort_results(scan_keys([results |-> << >>, matched_positions |-> {}],
                           ld, text, sorted_keys(ld), 1).results)

----
\* extractors/entity_resolver.py

honorifics == <<
    <<"U6C0F">>,
    <<"U3055", "U3093">>,
    <<"U69D8">>,
    <<"U541B">>,
    <<"U5927", "U7D71", "U9818">>,
    <<"U9996", "U76F8">>,
    <<"U7DCF", "U7406">>,
    <<"U7DCF", "U88C1">>,
    <<"U4EE3", "U8868">>,
    <<"U8B70", "U54E1">>,
    <<"U77E5", "U4E8B">>,
    <<"U5E02", "U9577">>,
    <<"U793E", "U9577">>,
    <<"U4F1A", "U9577">>,
    <<"U5927", "U81E3">>,
    <<"U9577", "U5B98">>,
    <<"U59D4", "U54E1", "U9577">>
>>

org_patterns == <<
    <<"U515A">>,
    <<"U7701">>,
    <<"U5E81">>,
    <<"U793E">>,
    <<"U9280", "U884C">>,
    <<"U5927", "U5B66">>,
    <<"U4F1A">>,
    <<"U6A5F", "U69CB">>,
    <<"U5354", "U4F1A">>,
    <<"U9023", "U76DF">>,
    <<"U59D4", "U54E1", "U4F1A">>
>>

place_patterns == <<
    <<"U770C">>,
    <<"U5E02">>,
    <<"U533A">>,
    <<"U753A">>,
    <<"U6751">>,
    <<"U56FD">>,
    <<"U5DDE">>,
    <<"U5CF6">>,
    <<"U5C71">>,
    <<"U5DDD">>,
    <<"U6E56">>
>>

person_indicators == <<
    <<"U6C0F">>,
    <<"U3055", "U3093">>,
    <<"U5927", "U7D71", "U9818">>,
    <<"U9996", "U76F8">>,
    <<"U8B70", "U54E1">>
>>

ResolvedEntity(id, label, entity_type, original_text, is_known, confidence) ==
    [id |-> id, label |-> label, entity_type |-> entity_type,
     original_text |-> original_text, is_known |-> is_known, confidence |-> confidence]

\* the namespace http://example.org/newskg#, as one token
NEWSKG == <<"newskg#">>

\* ResolvedEntity.to_uri
to_uri(entity, base_ns) == base_ns \o entity.entity_type \o <<"_">> \o entity.id

\* EntityResolver._clean_entity_text: each pattern is tried once, in order
RECURSIVE sub_honorifics(_, _)
sub_honorifics(cleaned, i) ==
    IF i > Len(honorifics) THEN cleaned
    ELSE sub_honorifics(SubSuffix(honorifics[i], cleaned), i + 1)

clean_entity_text(text) == Strip(sub_honorifics(text, 1))

\* the loop body of _find_partial_match for one entry: <<>> or <<entry, confidence>>
partial_match_entry(entry, text) ==
    IF In(entry.label, text) THEN <<entry, 80>>
    ELSE IF In(text, entry.label) THEN <<entry, 70>>
    ELSE IF \E i \in 1..Len(entry.aliases) :
                In(entry.aliases[i], text) \/ In(text, entry.aliases[i])
         THEN <<entry, 75>>
         ELSE <<>>

\* a plausible slip: the substring pass runs before the lookup of the cleaned text
find_partial_match_substring_first(ld, text) ==
    LET cleaned == clean_entity_text(text)
        exact == IF cleaned # text THEN find_entity(ld, cleaned) ELSE <<>>
        all_entries == get_all_entries(ld)
        hits == {i \in 1..Len(all_entries) : partial_match_entry(all_entries[i], text) # <<>>}
    IN  IF hits # {}
        THEN partial_match_entry(all_entries[CHOOSE i \in hits : \A j \in hits : i <= j], text)
        ELSE IF exact # <<>> THEN <<exact[1], 90>>
        ELSE <<>>

\* a plausible slip: the loop does not return at the first entry that qualifies,
\* so the last one wins
find_partial_match_last(ld, text) ==
    LET cleaned == clean_entity_text(text)
        exact == IF cleaned # text THEN find_entity(ld, cleaned) ELSE <<>>
        all_entries == get_all_entries(ld)
        hits == {i \in 1..Len(all_entries) : partial_match_entry(all_entries[i], text) # <<>>}
    IN  IF exact # <<>> THEN <<exact[1], 90>>
        ELSE IF hits = {} THEN <<>>
        ELSE partial_match_entry(all_entries[CHOOSE i \in hits : \A j \in hits : j <= i], text)

\* EntityResolver._find_partial_match: None is <<>>
find_partial_match(ld, text) ==
    LET cleaned == clean_entity_text(text)
        exact == IF cleaned # text THEN find_entity(ld, cleaned) ELSE <<>>
        all_entries == get_all_entries(ld)
        hits == {i \in 1..Len(all_entries) : partial_match_entry(all_entries[i], text) # <<>>}
    IN  IF exact # <<>> THEN <<exact[1], 90>>
        ELSE IF hits = {} THEN <<>>
        ELSE partial_match_entry(all_entries[CHOOSE i \in hits : \A j \in hits : i <= j], text)

\* a plausible slip: the id is the hash for every text
generate_id_hashed(text) == <<"e","n","t","i","t","y","_">> \o Md5Hex(text)

\* EntityResolver._generate_id
generate_id(text) ==
    IF IsWord(text) THEN Replace(Lower(text), " ", "_")
    ELSE <<"e","n","t","i","t","y","_">> \o Md5Hex(text)

\* EntityResolver._infer_entity_type
infer_entity_type(text) ==
    IF \E i \in 1..Len(org_patterns) : SearchSuffix(org_patterns[i], text)
    THEN T_organization
    ELSE IF \E i \in 1..Len(place_patterns) : SearchSuffix(place_patterns[i], text)
    THEN T_place
    ELSE IF \E i \in 1..Len(person_indicators) : In(person_indicators[i], text)
    THEN T_person
    ELSE T_other

\* a plausible slip: new-entity ids are numbered by the instance's registry
create_new_entity_numbered(self, text, entity_type) ==
    LET entity_id == <<"e","n","t","i","t","y","_">> \o <<ToString(Len(self.new_entities))>>
        type == IF entity_type = T_other THEN infer_entity_type(text) ELSE entity_type
        entity == ResolvedEntity(entity_id, text, type, text, FALSE, 50)
    IN  [ret |-> entity, new_entities |-> PyPut(self.new_entities, entity_id, entity)]

\* EntityResolver._create_new_entity: [ret, new_entities]
create_new_entity(self, text, entity_type) ==
    LET entity_id == generate_id(text)
        type == IF entity_type = T_other THEN infer_entity_type(text) ELSE entity_type
        entity == ResolvedEntity(entity_id, text, type, text, FALSE, 50)
    IN  [ret |-> entity, new_entities |-> PyPut(self.new_entities, entity_id, entity)]

\* a plausible slip: a repeat mention of a minted entity is answered from the
\* new-entity cache as a known entity
resolve_from_cache(self, text, entity_type) ==
    LET t == Strip(text)
        id == generate_id(t)
    IN  IF t # <<>> /\ find_entity(self.loader, t) = <<>>
           /\ find_partial_match(self.loader, t) = <<>> /\ PyHas(self.new_entities, id)
        THEN [ret |-> [PyGet(self.new_entities, id) EXCEPT !.confidence = 100],
              new_entities |-> self.new_entities]
        ELSE IF t = <<>>
        THEN [ret |-> ResolvedEntity(<<"u","n","k","n","o","w","n">>, <<"U4E0D","U660E">>,
                                     T_other, text, FALSE, 0),
              new_entities |-> self.new_entities]
        ELSE IF find_entity(self.loader, t) # <<>>
        THEN LET e == find_entity(self.loader, t)[1]
             IN  [ret |-> ResolvedEntity(e.id, e.label, e.entity_type, t, TRUE, 100),
                  new_entities |-> self.new_entities]
        ELSE IF find_partial_match(self.loader, t) # <<>>
        THEN LET m == find_partial_match(self.loader, t)
             IN  [ret |-> ResolvedEntity(m[1].id, m[1].label, m[1].entity_type, t, TRUE, m[2]),
                  new_entities |-> self.new_entities]
        ELSE create_new_entity(self, t, entity_type)

\* EntityResolver.resolve on self = [loader, new_entities]: [ret, new_entities]
\* a plausible slip: no check for empty text
resolve_unchecked(self, text, entity_type) ==
    LET t == Strip(text)
        entry == find_entity(self.loader, t)
        partial_match == find_partial_match(self.loader, t)
    IN  IF entry # <<>>
        THEN [ret |-> ResolvedEntity(entry[1].id, entry[1].label, entry[1].entity_type,
                                     t, TRUE, 100),
              new_entities |-> self.new_entities]
        ELSE IF partial_match # <<>>
        THEN [ret |-> ResolvedEntity(partial_match[1].id, partial_match[1].label,
                                     partial_match[1].entity_type, t, TRUE,
                                     partial_match[2]),
              new_entities |-> self.new_entities]
        ELSE create_new_entity(self, t, entity_type)

resolve(self, text, entity_type) ==
    IF text = <<>> \/ Strip(text) = <<>>
    THEN [ret |-> ResolvedEntity(<<"u","n","k","n","o","w","n">>, <<"U4E0D","U660E">>,
                                 T_other, text, FALSE, 0),
          new_entities |-> self.new_entities]
    ELSE LET t == Strip(text)
             entry == find_entity(self.loader, t)
             partial_match == find_partial_match(self.loader, t)
         IN  IF entry # <<>>
             THEN [ret |-> ResolvedEntity(entry[1].id, entry[1].label, entry[1].entity_type,
                                          t, TRUE, 100),
                   new_entities |-> self.new_entities]
             ELSE IF partial_match # <<>>
             THEN [ret |-> ResolvedEntity(partial_match[1].id, partial_match[1].label,
                                          partial_match[1].entity_type, t, TRUE,
                                          partial_match[2]),
                   new_entities |-> self.new_entities]
             ELSE create_new_entity(self, t, entity_type)

----
\* extractors/predicate_normalizer.py, normalize_predicates.py

PredicateEntry(id, label, aliases, category) ==
    [id |-> id, label |-> label, aliases |-> aliases, category |-> category]

\* the predicate-master file: whether it exists, whether its JSON text is complete
\* (the closing brackets were written), and the entries written to it
MasterFile(entries) == [exists |-> TRUE, complete |-> TRUE, predicates |-> entries]

RECURSIVE put_all(_, _, _, _)
\* for k in keys[i:]: d[k] = v
put_all(d, keys, v, i) ==
    IF i > Len(keys) THEN d ELSE put_all(PyPut(d, keys[i], v), keys, v, i + 1)

\* a plausible slip: the texts of an entry are indexed but the entry is not stored
store_entry_index_only(self, entry) ==
    [self EXCEPT !.alias_to_id = put_all(PyPut(@, entry.label, entry.id),
                                         entry.aliases, entry.id, 1)]

\* the body of the loop of _load_master, and of add_predicate: the entry is stored
\* under its id; its label, then each alias, is mapped to the id
store_entry(self, entry) ==
    [self EXCEPT !.predicates = PyPut(@, entry.id, entry),
                 !.alias_to_id = put_all(PyPut(@, entry.label, entry.id),
                                         entry.aliases, entry.id, 1)]

\* _load_master, lines 56-61: the PredicateEntry of a JSON object p of the file;
\* "aliases" and "category" may be absent
from_json(p) ==
    PredicateEntry(p.id, p.label,
                   IF "aliases" \in DOMAIN p THEN p.aliases ELSE << >>,
                   IF "category" \in DOMAIN p THEN p.category ELSE "other")

RECURSIVE load_entries(_, _, _)
load_entries(self, entries, i) ==
    IF i > Len(entries) THEN self
    ELSE load_entries(store_entry(self, from_json(entries[i])), entries, i + 1)

\* PredicateNormalizer.__init__ and _load_master on a readable file (a missing
\* file leaves the catalog empty)
PredicateNormalizer(file) ==
    LET empty == [predicates |-> << >>, alias_to_id |-> << >>, unknown_predicates |-> << >>]
    IN  IF ~file.exists THEN empty ELSE load_entries(empty, file.predicates, 1)

\* Counter: c[k] += 1
CounterInc(c, k) == PyPut(c, k, (IF PyHas(c, k) THEN PyGet(c, k) ELSE 0) + 1)

CounterGet(c, k) == IF PyHas(c, k) THEN PyGet(c, k) ELSE 0

\* a plausible slip: only the exact lookup, no substring pass
normalize_exact_only(self, predicate) ==
    IF PyHas(self.alias_to_id, predicate)
    THEN LET pid == PyGet(self.alias_to_id, predicate)
         IN  [ret |-> <<pid, PyGet(self.predicates, pid).label>>,
              unknown_predicates |-> self.unknown_predicates]
    ELSE [ret |-> <<predicate, predicate>>,
          unknown_predicates |-> CounterInc(self.unknown_predicates, predicate)]

\* PredicateNormalizer.normalize on self = [predicates, alias_to_id,
\* unknown_predicates]: [ret |-> <<id, label>>, unknown_predicates]
normalize(self, predicate) ==
    LET keys == PyKeys(self.alias_to_id)
        hits == {i \in 1..Len(keys) : In(keys[i], predicate) \/ In(predicate, keys[i])}
    IN  IF PyHas(self.alias_to_id, predicate)
        THEN LET pid == PyGet(self.alias_to_id, predicate)
             IN  [ret |-> <<pid, PyGet(self.predicates, pid).label>>,
                  unknown_predicates |-> self.unknown_predicates]
        ELSE IF hits # {}
        THEN LET pid == self.alias_to_id[CHOOSE i \in hits : \A j \in hits : i <= j].v
             IN  [ret |-> <<pid, PyGet(self.predicates, pid).label>>,
                  unknown_predicates |-> self.unknown_predicates]
        ELSE [ret |-> <<predicate, predicate>>,
              unknown_predicates |-> CounterInc(self.unknown_predicates, predicate)]

\* PredicateNormalizer.add_predicate
add_predicate(self, id, label, aliases, category) ==
    store_entry(self, PredicateEntry(id, label, aliases, category))

\* a plausible slip: the category is not written
save_master_without_category(self) ==
    MasterFile([i \in 1..Len(self.predicates) |->
                   [id |-> self.predicates[i].v.id, label |-> self.predicates[i].v.label,
                    aliases |-> self.predicates[i].v.aliases]])

\* PredicateNormalizer.save_master, when the write completes
save_master(self) == MasterFile(PyValues(self.predicates))

\* [m for m in members if m != canonical]
Others(members, canonical) == SelectSeq(members, LAMBDA m : m # canonical)

\* canonical.replace(" ", "_").lower()
derive_id(canonical) == Lower(Replace(canonical, " ", "_"))

\* canonical.replace(" ", "_").replace("U+30FB", "_").lower()
derive_id_script(canonical) == Lower(Replace(Replace(canonical, " ", "_"), "U30FB", "_"))

\* a plausible slip: the members are not passed on as aliases
merge_group_no_aliases(self, group) ==
    IF group.canonical # << >> /\ group.members # << >>
    THEN add_predicate(self, derive_id(group.canonical), group.canonical,
                       << >>, group.category)
    ELSE self

\* the "add to master" step of _llm_normalize for one group
merge_group(self, group) ==
    IF group.canonical # << >> /\ group.members # << >>
    THEN add_predicate(self, derive_id(group.canonical), group.canonical,
                       Others(group.members, group.canonical), group.category)
    ELSE self

RECURSIVE merge_groups(_, _, _)
merge_groups(self, groups, i) ==
    IF i > Len(groups) THEN self
    ELSE merge_groups(merge_group(self, groups[i]), groups, i + 1)

RECURSIVE group_mapping(_, _, _)
\* mapping[member] = canonical, group after group
group_mapping(mapping, groups, i) ==
    IF i > Len(groups) THEN mapping
    ELSE group_mapping(put_all(mapping, groups[i].members, groups[i].canonical, 1),
                       groups, i + 1)

\* PredicateBatchNormalizer._llm_normalize once chat_json has returned response:
\* [self, file, mapping]
llm_normalize(self, response) ==
    LET merged == merge_groups(self, response, 1)
    IN  [self |-> merged, file |-> save_master(merged),
         mapping |-> group_mapping(<< >>, response, 1)]

\* the loop body of update_master_dictionary: data is master_data["predicates"];
\* existing_ids is, at every iteration, the set of ids in data
update_group(data, group) ==
    IF group.canonical = << >> THEN data
    ELSE IF derive_id_script(group.canonical) \in {data[i].id : i \in 1..Len(data)} THEN data
    ELSE Append(data, PredicateEntry(derive_id_script(group.canonical), group.canonical,
                                     Others(group.members, group.canonical), group.category))

RECURSIVE update_groups(_, _, _)
update_groups(data, groups, i) ==
    IF i > Len(groups) THEN data
    ELSE update_groups(update_group(data, groups[i]), groups, i + 1)

\* load_existing_master
load_existing_master(file) == IF file.exists THEN file.predicates ELSE << >>

\* update_master_dictionary, when the write completes: the new file
update_master_dictionary(file, new_groups) ==
    MasterFile(update_groups(load_existing_master(file), new_groups, 1))

\* list(Counter(predicates).keys()): the distinct elements, in order of first occurrence
RECURSIVE Unique(_)
Unique(list) ==
    IF list = << >> THEN << >>
    ELSE LET init == Unique(SubSeq(list, 1, Len(list) - 1))
             last == list[Len(list)]
         IN  IF \E i \in 1..Len(init) : init[i] = last THEN init ELSE Append(init, last)

\* the first loop of normalize_batch: st = [self, mapping, unknown]
RECURSIVE batch_lookup(_, _, _)
batch_lookup(st, unique_preds, i) ==
    IF i > Len(unique_preds) THEN st
    ELSE LET pred == unique_preds[i]
             r == normalize(st.self, pred)
             self1 == [st.self EXCEPT !.unknown_predicates = r.unknown_predicates]
         IN  batch_lookup(
                 IF r.ret[1] # pred
                 THEN [self |-> self1, mapping |-> PyPut(st.mapping, pred, r.ret[2]),
                       unknown |-> st.unknown]
                 ELSE [self |-> self1, mapping |-> st.mapping,
                       unknown |-> Append(st.unknown, pred)],
                 unique_preds, i + 1)

RECURSIVE put_each(_, _, _)
\* for k in keys: d[k] = k
put_each(d, keys, i) ==
    IF i > Len(keys) THEN d ELSE put_each(PyPut(d, keys[i], keys[i]), keys, i + 1)

RECURSIVE py_update(_, _, _)
\* d.update(other)
py_update(d, other, i) ==
    IF i > Len(other) THEN d ELSE py_update(PyPut(d, other[i].k, other[i].v), other, i + 1)

\* fewer unknown predicates than this are mapped to themselves without the LLM
LlmThreshold == 5

\* PredicateBatchNormalizer.normalize_batch; llm is what the collaborators do
\* during the call: [ok |-> FALSE] (client.chat_json raises), or
\* [ok |-> TRUE, groups |-> the response's groups], with a field save_raises when
\* the write of save_master raises before the file is touched.
\* Returns [self, saved, file, mapping, unknown, merged, error, raised]: error is
\* what the except clause of lines 223-227 caught ("none", "llm" or "save"), and
\* raised whether the call ends with an exception (it never does).
normalize_batch(self, predicates_list, llm) ==
    LET st == batch_lookup([self |-> self, mapping |-> << >>, unknown |-> << >>],
                           Unique(predicates_list), 1)
        quiet == [self |-> st.self, saved |-> FALSE, file |-> MasterFile(<< >>),
                  mapping |-> put_each(st.mapping, st.unknown, 1),
                  unknown |-> st.unknown, merged |-> FALSE, error |-> "none",
                  raised |-> FALSE]
    IN  IF predicates_list = << >>
        THEN [self |-> self, saved |-> FALSE, file |-> MasterFile(<< >>), mapping |-> << >>,
              unknown |-> << >>, merged |-> FALSE, error |-> "none", raised |-> FALSE]
        ELSE IF Len(st.unknown) < LlmThreshold THEN quiet
        ELSE IF ~llm.ok THEN [quiet EXCEPT !.error = "llm"]
        ELSE LET r == llm_normalize(st.self, llm.groups)
             IN  IF "save_raises" \in DOMAIN llm
                 THEN [self |-> r.self, saved |-> FALSE, file |-> MasterFile(<< >>),
                       mapping |-> put_each(st.mapping, st.unknown, 1),
                       unknown |-> st.unknown, merged |-> TRUE, error |-> "save",
                       raised |-> FALSE]
                 ELSE [self |-> r.self, saved |-> TRUE, file |-> r.file,
                       mapping |-> py_update(st.mapping, r.mapping, 1),
                       unknown |-> st.unknown, merged |-> TRUE, error |-> "none",
                       raised |-> FALSE]

----
\* extractors/llm_extractor.py (Triple) and pipeline/rdf_generator_v2.py
\* (TripleBasedRDFGenerator).  An rdflib Graph is a set of triples
\* <<subject, predicate, object>>; a URIRef is its text, a Literal a record.

Triple(subject, subject_type, predicate, object, object_type, confidence, extraction_timestamp) ==
    [subject |-> subject, subject_type |-> subject_type, predicate |-> predicate,
     object |-> object, object_type |-> object_type, confidence |-> confidence,
     extraction_timestamp |-> extraction_timestamp]

\* Triple.get_id: the md5 prefix of f"{subject}_{predicate}_{object}"
get_id(triple) ==
    Md5Hex(triple.subject \o <<"_">> \o triple.predicate \o <<"_">> \o triple.object)

RDF_type == <<"rdf:type">>
RDF_Property == <<"rdf:Property">>
RDF_subject == <<"rdf:subject">>
RDF_predicate == <<"rdf:predicate">>
RDF_object == <<"rdf:object">>
RDFS_label == <<"rdfs:label">>

\* Literal(value, lang="ja") and Literal(value, datatype=...)
Literal(value, tag) == [value |-> value, tag |-> tag]

\* datetime.isoformat(), with the timestamp as a number of ticks
isoformat(extraction_timestamp) == <<ToString(extraction_timestamp)>>

\* the state of a fresh TripleBasedRDFGenerator
TripleBasedRDFGenerator ==
    [graph |-> {}, entity_cache |-> {}, triple_cache |-> {}, predicate_uris |-> << >>]

\* TripleBasedRDFGenerator.reset: predicate_uris is kept
reset(self) == [self EXCEPT !.graph = {}, !.entity_cache = {}, !.triple_cache = {}]

\* add_entity: type_class_map.get(entity.entity_type, NEWSKG.Entity)
type_class(entity_type) ==
    IF entity_type = T_organization THEN NEWSKG \o <<"Organization">>
    ELSE IF entity_type = T_person THEN NEWSKG \o <<"Person">>
    ELSE IF entity_type = T_place THEN NEWSKG \o <<"Place">>
    ELSE IF entity_type = <<"e","v","e","n","t">> THEN NEWSKG \o <<"Event">>
    ELSE NEWSKG \o <<"Entity">>

\* a plausible slip: the entity cache is not consulted
add_entity_uncached(self, entity) ==
    LET entity_uri == to_uri(entity, NEWSKG)
    IN  [self |-> [self EXCEPT
              !.entity_cache = @ \cup {entity_uri},
              !.graph = @ \cup {<<entity_uri, RDF_type, type_class(entity.entity_type)>>,
                                <<entity_uri, NEWSKG \o <<"hasLabel">>,
                                  Literal(entity.label, "ja")>>}
                          \cup (IF entity.original_text # entity.label
                                THEN {<<entity_uri, NEWSKG \o <<"hasAlias">>,
                                        Literal(entity.original_text, "ja")>>}
                                ELSE {})],
         ret |-> entity_uri]

\* TripleBasedRDFGenerator.add_entity
add_entity(self, entity) ==
    LET entity_uri == to_uri(entity, NEWSKG)
    IN  IF entity_uri \in self.entity_cache
        THEN [self |-> self, ret |-> entity_uri]
        ELSE [self |-> [self EXCEPT
                  !.entity_cache = @ \cup {entity_uri},
                  !.graph = @ \cup {<<entity_uri, RDF_type, type_class(entity.entity_type)>>,
                                    <<entity_uri, NEWSKG \o <<"hasLabel">>,
                                      Literal(entity.label, "ja")>>}
                              \cup (IF entity.original_text # entity.label
                                    THEN {<<entity_uri, NEWSKG \o <<"hasAlias">>,
                                            Literal(entity.original_text, "ja")>>}
                                    ELSE {})],
              ret |-> entity_uri]

\* TripleBasedRDFGenerator._make_safe_uri_part
make_safe_uri_part(text) ==
    IF IsWord(text) THEN Lower(text)
    ELSE <<"p","r","e","d","_">> \o Md5Hex(text)

\* a plausible slip: a predicate the catalog does not know is added to it
get_predicate_uri_learning(self, normalizer, predicate) ==
    LET n == normalize(normalizer, predicate)
        pred_id == n.ret[1]
        pred_label == n.ret[2]
        pred_uri == NEWSKG \o <<"rel_">> \o make_safe_uri_part(pred_id)
        after == [normalizer EXCEPT !.unknown_predicates = n.unknown_predicates]
    IN  IF PyHas(self.predicate_uris, pred_id)
        THEN [self |-> self, ret |-> PyGet(self.predicate_uris, pred_id), normalizer |-> after]
        ELSE [self |-> [self EXCEPT
                  !.graph = @ \cup {<<pred_uri, RDF_type, RDF_Property>>,
                                    <<pred_uri, RDFS_label, Literal(pred_label, "ja")>>},
                  !.predicate_uris = PyPut(@, pred_id, pred_uri)],
              ret |-> pred_uri,
              normalizer |-> IF PyHas(normalizer.alias_to_id, pred_label) THEN after
                             ELSE add_predicate(after, pred_id, pred_label, << >>, "other")]

\* TripleBasedRDFGenerator._get_predicate_uri, over the generator's normalizer;
\* normalizer in the result is the normalizer object after the call
get_predicate_uri(self, normalizer, predicate) ==
    LET n == normalize(normalizer, predicate)
        pred_id == n.ret[1]
        pred_label == n.ret[2]
        pred_uri == NEWSKG \o <<"rel_">> \o make_safe_uri_part(pred_id)
        after == [normalizer EXCEPT !.unknown_predicates = n.unknown_predicates]
    IN  IF PyHas(self.predicate_uris, pred_id)
        THEN [self |-> self, ret |-> PyGet(self.predicate_uris, pred_id), normalizer |-> after]
        ELSE [self |-> [self EXCEPT
                  !.graph = @ \cup {<<pred_uri, RDF_type, RDF_Property>>,
                                    <<pred_uri, RDFS_label, Literal(pred_label, "ja")>>},
                  !.predicate_uris = PyPut(@, pred_id, pred_uri)],
              ret |-> pred_uri,
              normalizer |-> after]

\* add_triple, lines 216-239: the reification of a triple as a NewsTriple;
\* article_uri is << >> for None
reify(g, triple_uri, subject_uri, predicate_uri, object_uri, triple, article_uri) ==
    g \cup {<<triple_uri, RDF_type, NEWSKG \o <<"NewsTriple">> >>,
            <<triple_uri, RDF_subject, subject_uri>>,
            <<triple_uri, RDF_predicate, predicate_uri>>,
            <<triple_uri, RDF_object, object_uri>>,
            <<triple_uri, NEWSKG \o <<"hasConfidence">>,
              Literal(triple.confidence, "decimal")>>,
            <<triple_uri, NEWSKG \o <<"extractedAt">>,
              Literal(isoformat(triple.extraction_timestamp), "dateTime")>>}
      \cup (IF article_uri # << >>
            THEN {<<triple_uri, NEWSKG \o <<"extractedFrom">>, article_uri>>}
            ELSE {})

\* add_triple, lines 194-195: subject and object are resolved, in this order,
\* by the generator's resolver
resolve_object(subject_entity, resolver, triple) ==
    [subject_entity |-> subject_entity.ret,
     object_entity |-> resolve([resolver EXCEPT !.new_entities = subject_entity.new_entities],
                               triple.object, triple.object_type)]

resolve_both(resolver, triple) ==
    resolve_object(resolve(resolver, triple.subject, triple.subject_type), resolver, triple)

\* add_triple, lines 198-206: both entities added, the predicate URI obtained,
\* the direct relation added
add_resolved(self, r, normalizer, triple) ==
    LET s == add_entity(self, r.subject_entity)
        o == add_entity(s.self, r.object_entity.ret)
        p == get_predicate_uri(o.self, normalizer, triple.predicate)
    IN  [self |-> [p.self EXCEPT !.graph = @ \cup {<<s.ret, p.ret, o.ret>>}],
         subject_uri |-> s.ret, predicate_uri |-> p.ret, object_uri |-> o.ret,
         new_entities |-> r.object_entity.new_entities,
         normalizer |-> p.normalizer]

\* the part of add_triple before the reification (lines 194-206)
add_direct(self, resolver, normalizer, triple) ==
    add_resolved(self, resolve_both(resolver, triple), normalizer, triple)

\* a plausible slip: the reification is written before the triple cache is
\* consulted, so a repeated triple adds its own confidence and provenance
reify_always(d, triple, article_uri) ==
    LET triple_id == get_id(triple)
        triple_uri == NEWSKG \o <<"triple_">> \o triple_id
    IN  [self |-> [d.self EXCEPT
                      !.triple_cache = @ \cup {triple_id},
                      !.graph = reify(@, triple_uri, d.subject_uri, d.predicate_uri,
                                      d.object_uri, triple, article_uri)],
         ret |-> triple_uri, new_entities |-> d.new_entities,
         normalizer |-> d.normalizer]

\* add_triple, lines 208-241, after the direct relation d: the reification, unless
\* the triple id is cached
reify_once(d, triple, article_uri) ==
    LET triple_id == get_id(triple)
        triple_uri == NEWSKG \o <<"triple_">> \o triple_id
    IN  IF triple_id \in d.self.triple_cache
        THEN [self |-> d.self, ret |-> triple_uri, new_entities |-> d.new_entities,
              normalizer |-> d.normalizer]
        ELSE [self |-> [d.self EXCEPT
                          !.triple_cache = @ \cup {triple_id},
                          !.graph = reify(@, triple_uri, d.subject_uri, d.predicate_uri,
                                          d.object_uri, triple, article_uri)],
              ret |-> triple_uri, new_entities |-> d.new_entities,
              normalizer |-> d.normalizer]

\* TripleBasedRDFGenerator.add_triple
add_triple(self, resolver, normalizer, triple, article_uri) ==
    reify_once(add_direct(self, resolver, normalizer, triple), triple, article_uri)

----
\* The write of the master file, step by step.  save_master,
\* update_master_dictionary and merge_duplicates all end in
\*     with open(master_file, 'w') as f: json.dump(data, f)
\* open(..., 'w') truncates the file; json.dump then writes the entries in order,
\* each writer at its own file position; leaving the with block writes the rest
\* and closes.  An entry is one slot of the file; a slot that was skipped by a
\* writer whose file was truncated under it reads as NUL bytes (Hole).

Hole == PredicateEntry(<<"NUL">>, << >>, << >>, "")

\* open(master_file, 'w')
open_w(file) == [exists |-> TRUE, complete |-> FALSE, predicates |-> << >>]

\* f.write of entry e by a writer whose position is after i - 1 entries
write_at(file, i, e) ==
    [exists |-> TRUE, complete |-> FALSE,
     predicates |->
         IF i <= Len(file.predicates) THEN [file.predicates EXCEPT ![i] = e]
         ELSE [j \in 1..i |-> IF j <= Len(file.predicates) THEN file.predicates[j]
                              ELSE IF j < i THEN Hole ELSE e]]

\* the closing brackets written after n entries: the text is complete JSON when
\* nothing else follows and no slot is a hole
close(file, n) ==
    [file EXCEPT !.complete = /\ Len(file.predicates) = n
                              /\ \A j \in 1..Len(file.predicates) : file.predicates[j] # Hole]

\* what a merge run of the given kind holds in memory after reading the file:
\* update_master_dictionary (normalize_predicates.py) or the in-memory merge of
\* _llm_normalize on a normalizer loaded from the file
merged_data(kind, file, groups) ==
    IF kind = "update_master_dictionary"
    THEN update_groups(load_existing_master(file), groups, 1)
    ELSE PyValues(merge_groups(PredicateNormalizer(file), groups, 1).predicates)

----
\* apply_normalization.py and apply_predicate_normalization.py: the retroactive
\* rewrite of an RDF file.  The file is a sequence of lines, a line a sequence of
\* characters in which  newskg:hasLabel ,  "@ja  and  newskg:rel_  are one token
\* each.

\* str.replace(old, new) for a non-empty old: the non-overlapping occurrences,
\* from the left
RECURSIVE ReplaceSeq(_, _, _, _)
ReplaceSeq(s, old, new, i) ==
    IF i > Len(s) THEN << >>
    ELSE IF OccursAt(old, s, i) THEN new \o ReplaceSeq(s, old, new, i + Len(old))
    ELSE <<s[i]>> \o ReplaceSeq(s, old, new, i + 1)

\* the number of whitespace characters of s from index i on
RECURSIVE SpaceRun(_, _)
SpaceRun(s, i) ==
    IF i <= Len(s) /\ s[i] \in Whitespace THEN 1 + SpaceRun(s, i + 1) ELSE 0

\* the length of the match of  newskg:hasLabel\s+"<label>"@ja  in line at index i,
\* 0 if there is none
label_match(line, label, i) ==
    LET ws == SpaceRun(line, i + 1)
    IN  IF /\ i <= Len(line)
           /\ line[i] = "newskg:hasLabel"
           /\ ws >= 1
           /\ OccursAt(<<"\"">> \o label \o <<"\"@ja">>, line, i + 1 + ws)
        THEN 1 + ws + 1 + Len(label) + 1
        ELSE 0

\* pattern.search(line)
label_search(line, label) == \E i \in 1..Len(line) : label_match(line, label, i) > 0

\* pattern.sub(f'newskg:hasLabel "{normalized_label}"@ja', line)
RECURSIVE label_sub(_, _, _, _)
label_sub(line, label, normalized_label, i) ==
    IF i > Len(line) THEN << >>
    ELSE IF label_match(line, label, i) > 0
    THEN <<"newskg:hasLabel", " ", "\"">> \o normalized_label \o <<"\"@ja">>
         \o label_sub(line, label, normalized_label, i + label_match(line, label, i))
    ELSE <<line[i]>> \o label_sub(line, label, normalized_label, i + 1)

\* apply_normalization_to_rdf, lines 36-38: the per-type mappings, flattened
RECURSIVE flatten_mapping(_, _, _)
flatten_mapping(all_mappings, mapping, i) ==
    IF i > Len(mapping) THEN all_mappings
    ELSE flatten_mapping(py_update(all_mappings, mapping[i].v, 1), mapping, i + 1)

\* apply_normalization_to_rdf, lines 51-58, on one line: st = [line, total_replacements]
RECURSIVE normalize_line(_, _, _)
normalize_line(st, all_mappings, i) ==
    IF i > Len(all_mappings) THEN st
    ELSE IF all_mappings[i].k = all_mappings[i].v THEN normalize_line(st, all_mappings, i + 1)
    ELSE IF label_search(st.line, all_mappings[i].k)
    THEN normalize_line([line |-> label_sub(st.line, all_mappings[i].k, all_mappings[i].v, 1),
                         total_replacements |-> st.total_replacements + 1],
                        all_mappings, i + 1)
    ELSE normalize_line(st, all_mappings, i + 1)

\* replace_predicates_in_rdf, lines 46-52, on one line
RECURSIVE replace_line(_, _, _)
replace_line(st, pred_mapping, i) ==
    IF i > Len(pred_mapping) THEN st
    ELSE LET old_uri == <<"newskg:rel_">> \o pred_mapping[i].k
             new_uri == <<"newskg:rel_">> \o pred_mapping[i].v
         IN  IF In(old_uri, st.line)
             THEN replace_line([line |-> ReplaceSeq(st.line, old_uri, new_uri, 1),
                                total_replacements |-> st.total_replacements + 1],
                               pred_mapping, i + 1)
             ELSE replace_line(st, pred_mapping, i + 1)

\* the loop over the lines of the input file: [lines, total_replacements] of the
\* output file; rewrite is "label" (apply_normalization_to_rdf on the flattened
\* mapping) or "predicate" (replace_predicates_in_rdf)
RECURSIVE rewrite_lines(_, _, _, _, _)
rewrite_lines(out, lines, rewrite, flat, i) ==
    IF i > Len(lines) THEN out
    ELSE LET st == [line |-> lines[i], total_replacements |-> out.total_replacements]
             r == IF rewrite = "label"
                  THEN IF In(<<"newskg:hasLabel">>, lines[i])
                       THEN normalize_line(st, flat, 1) ELSE st
                  ELSE IF In(<<"newskg:rel_","p","r","e","d","_">>, lines[i])
                       THEN replace_line(st, flat, 1) ELSE st
         IN  rewrite_lines([lines |-> Append(out.lines, r.line),
                            total_replacements |-> r.total_replacements],
                           lines, rewrite, flat, i + 1)

\* apply_normalization_to_rdf(input_file, output_file, mapping)
apply_normalization_to_rdf(lines, mapping) ==
    rewrite_lines([lines |-> << >>, total_replacements |-> 0], lines, "label",
                  flatten_mapping(<< >>, mapping, 1), 1)

\* replace_predicates_in_rdf(input_file, output_file, mapping)
replace_predicates_in_rdf(lines, pred_mapping) ==
    rewrite_lines([lines |-> << >>, total_replacements |-> 0], lines, "predicate",
                  pred_mapping, 1)

\* load_predicate_mapping: alias -> id for the aliases that start with pred_
RECURSIVE alias_mapping(_, _, _, _)
alias_mapping(pred_mapping, aliases, pred_id, i) ==
    IF i > Len(aliases) THEN pred_mapping
    ELSE alias_mapping(IF OccursAt(<<"p","r","e","d","_">>, aliases[i], 1)
                       THEN PyPut(pred_mapping, aliases[i], pred_id) ELSE pred_mapping,
                       aliases, pred_id, i + 1)

RECURSIVE predicate_mapping(_, _, _)
predicate_mapping(pred_mapping, preds, i) ==
    IF i > Len(preds) THEN pred_mapping
    ELSE predicate_mapping(alias_mapping(pred_mapping, preds[i].aliases, preds[i].id, 1),
                           preds, i + 1)

load_predicate_mapping(file) == predicate_mapping(<< >>, file.predicates, 1)

----
\* Inputs and bounds of the resolver specification

MaxResolves == 3

Instances == {1, 2}

Raw(id, label, aliases) == [id |-> id, label |-> label, aliases |-> aliases]

\* the three class files (organizations.json, persons.json, places.json) of a
\* dictionary directory
SrcClean ==
    [organizations |-> << Raw(<<"o","1">>, <<"x","y">>, << <<"x","y","z">>, <<"q">> >>) >>,
     persons |-> << Raw(<<"p","1">>, <<"m">>, << <<"n">>, <<"r">> >>) >>,
     places |-> << >>]

\* an alias carried by two entries, and an alias with trailing whitespace
SrcAnomalous ==
    [organizations |-> << Raw(<<"o","1">>, <<"k","1">>, << <<"n">> >>) >>,
     persons |-> << Raw(<<"p","1">>, <<"m">>, << <<"n">>, <<"k"," ">> >>) >>,
     places |-> << >>]

DictionarySources == {SrcClean, SrcAnomalous}

ResolveTexts ==
    { <<"n">>, <<"k"," ">>, << >>, <<" ">>, <<"w">>, <<"W">>, <<"m","U6C0F">> }

TypeHints == {T_person, T_other}

NoCall == [op |-> "none"]

\* the state right after construction of the objects, over dictionary source src
InitOver(src) ==
    /\ loader = DictionaryLoader(src)
    /\ new_entities = [i \in Instances |-> << >>]
    /\ call = NoCall
    /\ resolve_log = [i \in Instances |-> {}]
    /\ n_calls = 0
    /\ unknown_predicates = << >>
    /\ graph = {}
    /\ entity_cache = {}
    /\ triple_cache = {}
    /\ predicate_uris = << >>
    /\ first_write = {}

\* no predicate-master file: the catalog is empty
NoMaster == [exists |-> FALSE, complete |-> FALSE, predicates |-> << >>]

InitResolve ==
    /\ \E src \in DictionarySources : InitOver(src)
    /\ master_file = NoMaster
    /\ predicates = PredicateNormalizer(NoMaster).predicates
    /\ alias_to_id = PredicateNormalizer(NoMaster).alias_to_id
    /\ procs = << >>
    /\ corpus = << >>
    /\ rewrite_mapping = << >>
    /\ processors = << >>
    /\ _resolver = << >>
    /\ _normalizer = << >>

\* one call of EntityResolver.resolve on resolver instance i
Resolve(i, text, hint) ==
    /\ n_calls < MaxResolves
    /\ LET r == resolve([loader |-> loader, new_entities |-> new_entities[i]], text, hint)
       IN  /\ new_entities' = [new_entities EXCEPT ![i] = r.new_entities]
           /\ call' = [op |-> "resolve", inst |-> i, text |-> text, hint |-> hint,
                       ret |-> r.ret,
                       \* the same (text, hint) was resolved on i before, and the call
                       \* before this one resolved another text on i
                       again |-> /\ \E l \in resolve_log[i] : l.text = text /\ l.hint = hint
                                 /\ call.op = "resolve" /\ call.inst = i /\ call.text # text]
           /\ resolve_log' = [resolve_log EXCEPT ![i] =
                  @ \cup {[text |-> text, hint |-> hint, id |-> r.ret.id,
                            entity_type |-> r.ret.entity_type,
                            confidence |-> r.ret.confidence,
                            uri |-> to_uri(r.ret, NEWSKG)]}]
    /\ n_calls' = n_calls + 1
    /\ UNCHANGED <<loader, catalogVars, master_file, graphVars, procs, rewriteVars, processorVars>>

NextResolve ==
    \E i \in Instances, text \in ResolveTexts, hint \in TypeHints : Resolve(i, text, hint)

SpecResolve == InitResolve /\ [][NextResolve]_vars

----
\* Properties of the resolver

\* C3: on one resolver instance and one dictionary snapshot, every call of
\* resolve(t, h) returns the same id and the same confidence, whatever calls were
\* made on the instance in between.
C3_ResolveDeterministic ==
    \A i \in Instances : \A a, b \in resolve_log[i] :
        (a.text = b.text /\ a.hint = b.hint) =>
            (a.id = b.id /\ a.confidence = b.confidence)

\* a minted text is resolved again on the same instance after another text
C3_Witness ==
    /\ call.op = "resolve"
    /\ call.again
    /\ ~call.ret.is_known
    /\ call.ret.confidence = 50

\* C4: two resolver instances with separate registries over the same dictionary
\* give the same text and hint the same id and the same URI, whatever each
\* resolved before; the URI is determined by (type, id).
C4_FreshInstancesAgree ==
    /\ \A a \in resolve_log[1], b \in resolve_log[2] :
           (a.text = b.text /\ a.hint = b.hint) => (a.id = b.id /\ a.uri = b.uri)
    /\ \A a, b \in resolve_log[1] \cup resolve_log[2] :
           (a.entity_type = b.entity_type /\ a.id = b.id) => a.uri = b.uri

\* instance 2 mints a text that instance 1 minted too, after minting another one
C4_Witness ==
    /\ call.op = "resolve"
    /\ call.inst = 2
    /\ ~call.ret.is_known
    /\ call.ret.confidence = 50
    /\ Len(new_entities[2]) >= 2
    /\ Len(new_entities[1]) = 1
    /\ \E a \in resolve_log[1] : a.text = call.text /\ a.hint = call.hint

\* the entries of the three class files, in load order
AllRaw(src) == src.organizations \o src.persons \o src.places

AliasSet(raw) == {raw.aliases[i] : i \in 1..Len(raw.aliases)}

\* C5 as stated: every alias X of every entry E resolves to E.id, for every hint
\* and every dictionary content.
C5_AliasResolvesToEntry ==
    call.op = "resolve" =>
        \A k \in 1..Len(AllRaw(loader.dictionaries_dir)) :
            LET E == AllRaw(loader.dictionaries_dir)[k]
            IN  call.text \in AliasSet(E) => call.ret.id = E.id

\* X is an alias of the k-th loaded entry that is not empty, has no surrounding
\* whitespace and is neither label nor alias of an entry loaded after it
OwnsAlias(src, k, X) ==
    /\ X \in AliasSet(AllRaw(src)[k])
    /\ X # << >>
    /\ Strip(X) = X
    /\ \A j \in (k + 1)..Len(AllRaw(src)) :
           AllRaw(src)[j].label # X /\ X \notin AliasSet(AllRaw(src)[j])

\* C5, amended: an alias X of entry E that is non-empty, has no leading or
\* trailing whitespace and is not label or alias of an entry loaded after E
\* resolves to E.id with confidence 1.0, for every hint.
C5_OwnedAliasResolvesToEntry ==
    call.op = "resolve" =>
        \A k \in 1..Len(AllRaw(loader.dictionaries_dir)) :
            OwnsAlias(loader.dictionaries_dir, k, call.text) =>
                /\ call.ret.id = AllRaw(loader.dictionaries_dir)[k].id
                /\ call.ret.confidence = 100

\* an alias that an earlier entry lists too is resolved to the entry loaded last
C5_Witness ==
    /\ call.op = "resolve"
    /\ \E k \in 1..Len(AllRaw(loader.dictionaries_dir)) :
           /\ OwnsAlias(loader.dictionaries_dir, k, call.text)
           /\ k > 1
           /\ call.text \in AliasSet(AllRaw(loader.dictionaries_dir)[1])
           /\ call.ret.id = AllRaw(loader.dictionaries_dir)[k].id

----
\* The sentinel of resolve

Unknown == <<"u","n","k","n","o","w","n">>

IsBlank(text) == text = << >> \/ Strip(text) = << >>

\* C13 as stated: resolve on an empty or whitespace-only text returns the
\* sentinel with id "unknown", label "unknown", type other, is_known false and
\* confidence 0.0, for every hint and every dictionary, and adds nothing to the
\* new-entity registry.
C13_BlankGivesUnknownLabel ==
    [][(call'.op = "resolve" /\ n_calls' = n_calls + 1 /\ IsBlank(call'.text)) =>
          /\ call'.ret.id = Unknown
          /\ call'.ret.label = Unknown
          /\ call'.ret.entity_type = T_other
          /\ ~call'.ret.is_known
          /\ call'.ret.confidence = 0
          /\ new_entities' = new_entities]_vars

\* C13: resolve on an empty or whitespace-only text returns the sentinel with id
\* "unknown", the label U+4E0D U+660E, type other, is_known false and confidence
\* 0.0, with the text as given, for every hint and every dictionary, and adds
\* nothing to the new-entity registry.
C13_BlankGivesSentinel ==
    [][(call'.op = "resolve" /\ n_calls' = n_calls + 1 /\ IsBlank(call'.text)) =>
          /\ call'.ret = ResolvedEntity(Unknown, <<"U4E0D","U660E">>, T_other,
                                        call'.text, FALSE, 0)
          /\ new_entities' = new_entities]_vars

\* a whitespace-only text is resolved on an instance whose registry holds a
\* minted entity
C13_Witness ==
    /\ call.op = "resolve"
    /\ call.text = <<" ">>
    /\ call.ret.id = Unknown
    /\ new_entities[call.inst] # << >>

----
\* The order of the rules of resolve

\* the entries of the dictionary files that carry text t as label or alias
Carriers(src, t) ==
    {k \in 1..Len(AllRaw(src)) : AllRaw(src)[k].label = t \/ t \in AliasSet(AllRaw(src)[k])}

\* the result r is entry k of the dictionary files, known, with confidence c
IsEntry(r, src, k, c) ==
    /\ r.id = AllRaw(src)[k].id
    /\ r.label = AllRaw(src)[k].label
    /\ r.is_known
    /\ r.confidence = c

\* C20: resolve applies its rules in priority order and the first match wins: a
\* trimmed text that is the label or an alias of an entry gives that entry with
\* confidence 1.0, is_known true; otherwise a text that, with its trailing
\* honorific stripped, is the label or an alias of an entry gives that entry
\* with confidence 0.9, is_known true, whatever substring matches there are.
C20_ExactThenHonorificStripped ==
    (call.op = "resolve" /\ ~IsBlank(call.text)) =>
        LET src == loader.dictionaries_dir
            t == Strip(call.text)
        IN  /\ Carriers(src, t) # {} =>
                   \E k \in Carriers(src, t) : IsEntry(call.ret, src, k, 100)
            /\ (Carriers(src, t) = {} /\ clean_entity_text(t) # t
                    /\ Carriers(src, clean_entity_text(t)) # {}) =>
                   \E k \in Carriers(src, clean_entity_text(t)) : IsEntry(call.ret, src, k, 90)

\* a text with an honorific whose stripped form is a label, and which also
\* contains that label as a substring, is resolved with confidence 0.9
C20_Witness ==
    /\ call.op = "resolve"
    /\ call.text = <<"m","U6C0F">>
    /\ clean_entity_text(call.text) = <<"m">>
    /\ partial_match_entry(get_all_entries(loader)[Len(get_all_entries(loader))], call.text)[2] = 80
    /\ call.ret.confidence = 90
    /\ call.ret.id = <<"p","1">>

----
\* Inputs and bounds of the catalog specification

MaxCatalogOps == 3

Group(canonical, members, category) ==
    [canonical |-> canonical, members |-> members, category |-> category]

\* predicate_master.json as first read
InitialMaster ==
    MasterFile(<< PredicateEntry(<<"v">>, <<"v">>, << <<"g">> >>, "diplomacy") >>)

\* what the clustering collaborator may propose
GroupsNew == << Group(<<"h">>, << <<"a">>, <<"b">> >>, "action") >>
GroupsExistingId == << Group(<<"V">>, << <<"a">> >>, "other") >>
GroupsSharedMember ==
    << Group(<<"h">>, << <<"a">>, <<"b">> >>, "action"), Group(<<"i">>, << <<"b">> >>, "event") >>
GroupsSameId ==
    << Group(<<"H">>, << <<"a">> >>, "action"), Group(<<"h">>, << <<"b">> >>, "event") >>
GroupsNoMembers == << Group(<<"j">>, << >>, "other") >>

Responses ==
    {GroupsNew, GroupsExistingId, GroupsSharedMember, GroupsSameId, GroupsNoMembers}

LlmOutcomes == {[ok |-> TRUE, groups |-> g] : g \in Responses} \cup {[ok |-> FALSE]}

Batches ==
    { << <<"a">>, <<"b">>, <<"c">>, <<"d">>, <<"e">>, <<"f">>, <<"a">> >>,
      << <<"a">>, <<"v","s">> >> }

PredicateTexts == { <<"a">>, <<"b">>, <<"g">>, <<"v","s">>, <<"z">> }

AllMembers(groups) ==
    UNION {{groups[k].members[i] : i \in 1..Len(groups[k].members)} : k \in 1..Len(groups)}

\* the members for which normalize returns (m, m) on normalizer self
Unmatched(self, groups) == {m \in AllMembers(groups) : normalize(self, m).ret = <<m, m>>}

Normalizer == [predicates |-> predicates, alias_to_id |-> alias_to_id,
               unknown_predicates |-> unknown_predicates]

\* a master file with an entry that has neither aliases nor category
SparseMaster ==
    MasterFile(<< PredicateEntry(<<"v">>, <<"v">>, << <<"g">> >>, "diplomacy"),
                  [id |-> <<"u">>, label |-> <<"u">>] >>)

InitCatalog ==
    /\ InitOver(SrcClean)
    /\ master_file \in {InitialMaster, SparseMaster}
    /\ predicates = PredicateNormalizer(master_file).predicates
    /\ alias_to_id = PredicateNormalizer(master_file).alias_to_id
    /\ procs = << >>
    /\ corpus = << >>
    /\ rewrite_mapping = << >>
    /\ processors = << >>
    /\ _resolver = << >>
    /\ _normalizer = << >>

\* one call of PredicateNormalizer.normalize
Normalize(predicate) ==
    /\ n_calls < MaxCatalogOps
    /\ LET r == normalize(Normalizer, predicate)
       IN  /\ unknown_predicates' = r.unknown_predicates
           /\ call' = [op |-> "normalize", predicate |-> predicate, ret |-> r.ret]
    /\ n_calls' = n_calls + 1
    /\ UNCHANGED <<loader, resolverVars, predicates, alias_to_id, master_file, graphVars,
                   procs, rewriteVars, processorVars>>

\* one call of PredicateBatchNormalizer.normalize_batch
NormalizeBatch(batch, llm) ==
    /\ n_calls < MaxCatalogOps
    /\ LET r == normalize_batch(Normalizer, batch, llm)
       IN  /\ predicates' = r.self.predicates
           /\ alias_to_id' = r.self.alias_to_id
           /\ unknown_predicates' = r.self.unknown_predicates
           /\ master_file' = IF r.saved THEN r.file ELSE master_file
           /\ call' = [op |-> "normalize_batch", batch |-> batch, llm |-> llm,
                       merged |-> r.merged, ret |-> r.mapping,
                       saved |-> r.saved, error |-> r.error, raised |-> r.raised,
                       groups |-> IF r.merged THEN llm.groups ELSE << >>,
                       unmatched |-> IF r.merged THEN Unmatched(Normalizer, llm.groups)
                                     ELSE {},
                       ids_before |-> PyKeySet(predicates)]
    /\ n_calls' = n_calls + 1
    /\ UNCHANGED <<loader, resolverVars, graphVars, procs, rewriteVars, processorVars>>

\* one run of update_master_dictionary (normalize_predicates.py) on the master file
UpdateMasterDictionary(groups) ==
    /\ n_calls < MaxCatalogOps
    /\ master_file.exists => master_file.complete
    /\ master_file' = update_master_dictionary(master_file, groups)
    /\ call' = [op |-> "update_master_dictionary", groups |-> groups,
                unmatched |-> Unmatched(PredicateNormalizer(master_file), groups),
                ids_before |-> {load_existing_master(master_file)[i].id :
                                    i \in 1..Len(load_existing_master(master_file))}]
    /\ n_calls' = n_calls + 1
    /\ UNCHANGED <<loader, resolverVars, catalogVars, graphVars, procs, rewriteVars, processorVars>>

\* a PredicateNormalizer is constructed from the master file (a new pipeline run)
LoadMaster ==
    /\ n_calls < MaxCatalogOps
    /\ master_file.exists => master_file.complete
    /\ predicates' = PredicateNormalizer(master_file).predicates
    /\ alias_to_id' = PredicateNormalizer(master_file).alias_to_id
    /\ unknown_predicates' = << >>
    /\ call' = [op |-> "load_master"]
    /\ n_calls' = n_calls + 1
    /\ UNCHANGED <<loader, resolverVars, master_file, graphVars, procs, rewriteVars, processorVars>>

NextCatalog ==
    \/ \E p \in PredicateTexts : Normalize(p)
    \/ \E groups \in Responses : UpdateMasterDictionary(groups)
    \/ \E batch \in Batches, llm \in LlmOutcomes : NormalizeBatch(batch, llm)
    \/ LoadMaster

SpecCatalog == InitCatalog /\ [][NextCatalog]_vars

----
\* Properties of the predicate catalog

\* the texts of the alias index that predicate equals, contains or is contained in
Overlapping(index, predicate) ==
    {a \in PyKeySet(index) : In(a, predicate) \/ In(predicate, a)}

\* predicate is the label or an alias of entry
Carries(entry, predicate) ==
    entry.label = predicate \/ \E i \in 1..Len(entry.aliases) : entry.aliases[i] = predicate

NormalizeStep == call'.op = "normalize" /\ n_calls' = n_calls + 1

\* C6 as stated: normalize(p) returns (id, label) of a catalog entry exactly when
\* p equals a label or an alias of that entry; every other p is returned as
\* (p, p) and its unknown-predicate count grows by one; a matched call leaves the
\* counter unchanged.
C6_ExactMatchOrCount ==
    [][NormalizeStep =>
        LET p == call'.predicate
            entries == {predicates[i].v : i \in 1..Len(predicates)}
        IN  IF \E e \in entries : Carries(e, p)
            THEN /\ \E e \in entries : Carries(e, p) /\ call'.ret = <<e.id, e.label>>
                 /\ unknown_predicates' = unknown_predicates
            ELSE /\ call'.ret = <<p, p>>
                 /\ unknown_predicates' = CounterInc(unknown_predicates, p)]_vars

\* C6, amended: normalize(p) returns the id and label of a catalog entry, and
\* leaves the counter unchanged, whenever p equals, contains or is contained in a
\* text of the alias index (the entry the index gives for p itself when p is
\* indexed); only a p that overlaps no indexed text is returned as (p, p), and
\* then its count grows by exactly one and no other count changes.
C6_OverlapMatchOrCount ==
    [][NormalizeStep =>
        LET p == call'.predicate
        IN  IF Overlapping(alias_to_id, p) # {}
            THEN /\ PyHas(predicates, call'.ret[1])
                 /\ call'.ret[2] = PyGet(predicates, call'.ret[1]).label
                 /\ \E a \in Overlapping(alias_to_id, p) :
                        call'.ret[1] = PyGet(alias_to_id, a)
                 /\ PyHas(alias_to_id, p) => call'.ret[1] = PyGet(alias_to_id, p)
                 /\ unknown_predicates' = unknown_predicates
            ELSE /\ call'.ret = <<p, p>>
                 /\ CounterGet(unknown_predicates', p) = CounterGet(unknown_predicates, p) + 1
                 /\ \A q \in PyKeySet(unknown_predicates') \ {p} :
                        CounterGet(unknown_predicates', q) = CounterGet(unknown_predicates, q)]_vars

\* normalize was called on a text that is not indexed but contains an indexed
\* one, and returned that entry; and on a text that overlaps nothing, twice
C6_Witness ==
    /\ call.op = "normalize"
    /\ ~PyHas(alias_to_id, call.predicate)
    /\ Overlapping(alias_to_id, call.predicate) # {}
    /\ call.ret[1] # call.predicate
    /\ \E q \in PyKeySet(unknown_predicates) : PyGet(unknown_predicates, q) = 2

MergeInMemory == call.op = "normalize_batch" /\ call.merged
MergeInFile == call.op = "update_master_dictionary"

\* what normalize returns for m after the merge: from the merging normalizer
\* (in-memory path), from a normalizer loaded from the updated file (script path)
AfterMerge(m) ==
    IF MergeInMemory THEN normalize(Normalizer, m).ret
    ELSE normalize(PredicateNormalizer(master_file), m).ret

DerivedId(canonical) ==
    IF MergeInMemory THEN derive_id(canonical) ELSE derive_id_script(canonical)

\* C7 as stated: after a merge of a group, normalize(m) returns the id derived
\* from the canonical label and the canonical label, for every member m for which
\* it returned (m, m) before the merge.
C7_MembersNormalizeToCanonical ==
    (MergeInMemory \/ MergeInFile) =>
        \A k \in 1..Len(call.groups) :
            \A i \in 1..Len(call.groups[k].members) :
                LET m == call.groups[k].members[i]
                IN  m \in call.unmatched =>
                        AfterMerge(m) = <<DerivedId(call.groups[k].canonical),
                                          call.groups[k].canonical>>

\* group k of the merge has a canonical label, and no other group of the merge
\* derives its id or carries one of its members as canonical label or member
Undisputed(groups, k) ==
    /\ groups[k].canonical # << >>
    /\ \A j \in (1..Len(groups)) \ {k} :
           /\ DerivedId(groups[j].canonical) # DerivedId(groups[k].canonical)
           /\ \A i \in 1..Len(groups[k].members) :
                  /\ groups[j].canonical # groups[k].members[i]
                  /\ \A h \in 1..Len(groups[j].members) :
                         groups[j].members[h] # groups[k].members[i]

\* C7, amended: the same, for a group with a non-empty canonical label whose id
\* and members no other group of the same merge uses, and, in the master-file
\* update script (which skips ids already present), whose derived id was not in
\* the file before the merge.
C7_UndisputedMembersNormalizeToCanonical ==
    (MergeInMemory \/ MergeInFile) =>
        \A k \in 1..Len(call.groups) :
            (/\ Undisputed(call.groups, k)
             /\ MergeInFile => DerivedId(call.groups[k].canonical) \notin call.ids_before) =>
                \A i \in 1..Len(call.groups[k].members) :
                    LET m == call.groups[k].members[i]
                    IN  m \in call.unmatched =>
                            AfterMerge(m) = <<DerivedId(call.groups[k].canonical),
                                              call.groups[k].canonical>>

\* a group was merged in memory, with a member that was unmatched before and is
\* normalized to the canonical label now
C7_Witness ==
    /\ MergeInMemory
    /\ \E k \in 1..Len(call.groups) :
           /\ Undisputed(call.groups, k)
           /\ \E i \in 1..Len(call.groups[k].members) :
                  /\ call.groups[k].members[i] \in call.unmatched
                  /\ AfterMerge(call.groups[k].members[i]) =
                         <<derive_id(call.groups[k].canonical), call.groups[k].canonical>>

\* C8: a merge leaves every entry whose id is already in the catalog as it is
\* (label, aliases, category): the entries in memory across a batch merge, the
\* entries of the file across a run of the update script.
C8_MergeKeepsExistingEntries ==
    [][/\ (call'.op = "normalize_batch" /\ n_calls' = n_calls + 1) =>
              \A i \in 1..Len(predicates) :
                  /\ PyHas(predicates', predicates[i].k)
                  /\ PyGet(predicates', predicates[i].k) = predicates[i].v
       /\ (call'.op = "update_master_dictionary" /\ n_calls' = n_calls + 1) =>
              \A i \in 1..Len(master_file.predicates) :
                  \E j \in 1..Len(master_file'.predicates) :
                      master_file'.predicates[j] = master_file.predicates[i]]_vars

----
\* Inputs and bounds of the graph assembler specification

MaxGraphOps == 3

\* subject n is an alias of the person labelled m and predicate g an alias of
\* predicate v; w and z are in no dictionary
TripleTexts ==
    { <<<<"m">>, T_person, <<"v">>, <<"x","y">>, T_organization>>,
      <<<<"n">>, T_person, <<"g">>, <<"x","y">>, T_organization>>,
      <<<<"w">>, T_person, <<"z">>, <<"x","y">>, T_organization>>,
      <<<<"w">>, T_other, <<"z">>, <<"x","y">>, T_organization>> }

\* confidence, extraction timestamp and article URI (<< >> for None) of a call
Provenances == { <<90, 1, NEWSKG \o <<"article_d1">> >>, <<50, 2, << >> >> }

Resolver1 == [loader |-> loader, new_entities |-> new_entities[1]]

Generator == [graph |-> graph, entity_cache |-> entity_cache,
              triple_cache |-> triple_cache, predicate_uris |-> predicate_uris]

Text(t) == <<t.subject, t.predicate, t.object>>
TextAndHints(t) == <<t.subject, t.subject_type, t.predicate, t.object, t.object_type>>

\* the dictionary SrcClean with the word "w" as the id of its person
SrcMintedId ==
    [organizations |-> << Raw(<<"o","1">>, <<"x","y">>, << <<"x","y","z">>, <<"q">> >>) >>,
     persons |-> << Raw(<<"w">>, <<"m">>, << <<"n">>, <<"r">> >>) >>,
     places |-> << >>]

GraphSources == DictionarySources \cup {SrcMintedId}

InitGraph ==
    /\ \E src \in GraphSources : InitOver(src)
    /\ master_file = InitialMaster
    /\ predicates = PredicateNormalizer(InitialMaster).predicates
    /\ alias_to_id = PredicateNormalizer(InitialMaster).alias_to_id
    /\ procs = << >>
    /\ corpus = << >>
    /\ rewrite_mapping = << >>
    /\ processors = << >>
    /\ _resolver = << >>
    /\ _normalizer = << >>

\* one call of add_triple on the generator, which uses resolver instance 1 and
\* the normalizer
AddTriple(triple, article_uri) ==
    /\ n_calls < MaxGraphOps
    /\ LET r == add_triple(Generator, Resolver1, Normalizer, triple, article_uri)
       IN  /\ graph' = r.self.graph
           /\ entity_cache' = r.self.entity_cache
           /\ triple_cache' = r.self.triple_cache
           /\ predicate_uris' = r.self.predicate_uris
           /\ new_entities' = [new_entities EXCEPT ![1] = r.new_entities]
           /\ predicates' = r.normalizer.predicates
           /\ alias_to_id' = r.normalizer.alias_to_id
           /\ unknown_predicates' = r.normalizer.unknown_predicates
           /\ call' = [op |-> "add_triple", triple |-> triple, article_uri |-> article_uri,
                       ret |-> r.ret]
    /\ first_write' =
           IF \E w \in first_write : TextAndHints(w.triple) = TextAndHints(triple)
           THEN first_write
           ELSE first_write \cup
                    {[triple |-> triple, article_uri |-> article_uri,
                      first |-> ~\E w \in first_write : Text(w.triple) = Text(triple)]}
    /\ n_calls' = n_calls + 1
    /\ UNCHANGED <<loader, resolve_log, master_file, procs, rewriteVars, processorVars>>

\* one call of reset on the generator
Reset ==
    /\ n_calls < MaxGraphOps
    /\ graph' = reset(Generator).graph
    /\ entity_cache' = reset(Generator).entity_cache
    /\ triple_cache' = reset(Generator).triple_cache
    /\ predicate_uris' = reset(Generator).predicate_uris
    /\ first_write' = {}
    /\ call' = [op |-> "reset"]
    /\ n_calls' = n_calls + 1
    /\ UNCHANGED <<loader, resolverVars, catalogVars, master_file, procs, rewriteVars, processorVars>>

\* the calls of add_triple: a triple and the article URI
GraphInputs ==
    {[triple |-> Triple(x[1], x[2], x[3], x[4], x[5], v[1], v[2]), article_uri |-> v[3]] :
         x \in TripleTexts, v \in Provenances}

NextGraph ==
    \/ \E t \in GraphInputs : AddTriple(t.triple, t.article_uri)
    \/ Reset

SpecGraph == InitGraph /\ [][NextGraph]_vars

----
\* Properties of the graph assembler

\* the reified edges of the graph, and the values of property p of node
NewsTriples == {x[1] : x \in {y \in graph : y[2] = RDF_type /\ y[3] = NEWSKG \o <<"NewsTriple">>}}
Objects(node, p) == {x[3] : x \in {y \in graph : y[1] = node /\ y[2] = p}}

\* the (subject URI, predicate URI, object URI) an edge reifies
dedup_key(edge) ==
    <<Objects(edge, RDF_subject), Objects(edge, RDF_predicate), Objects(edge, RDF_object)>>

\* C1: the graph holds at most one reified edge (NewsTriple) per combination of
\* subject URI, predicate URI and object URI, whatever the surface texts of the
\* triples that were added.
C1_OneEdgePerDedupKey ==
    \A e1 \in NewsTriples : \A e2 \in NewsTriples :
        dedup_key(e1) = dedup_key(e2) => e1 = e2

TripleUri(t) == NEWSKG \o <<"triple_">> \o get_id(t)

\* the edge of the text of first call w carries exactly the values of w
CarriesFirstWrite(w) ==
    LET e == TripleUri(w.triple)
    IN  /\ e \in NewsTriples
        /\ Objects(e, NEWSKG \o <<"hasConfidence">>) = {Literal(w.triple.confidence, "decimal")}
        /\ Objects(e, NEWSKG \o <<"extractedAt">>) =
               {Literal(isoformat(w.triple.extraction_timestamp), "dateTime")}
        /\ Objects(e, NEWSKG \o <<"extractedFrom">>) =
               (IF w.article_uri = << >> THEN {} ELSE {w.article_uri})
        /\ Objects(e, RDF_subject) =
               {to_uri(resolve(Resolver1, w.triple.subject, w.triple.subject_type).ret, NEWSKG)}
        /\ Objects(e, RDF_object) =
               {to_uri(resolve(Resolver1, w.triple.object, w.triple.object_type).ret, NEWSKG)}
        /\ Cardinality(Objects(e, RDF_predicate)) = 1

\* C2: add_triple is idempotent, first write wins.  However often triples of one
\* subject, predicate and object text are added to a graph, the graph holds one
\* edge for them, with the confidence, source and extraction time (and the
\* resolved URIs) of the first of these calls; and a call whose texts and type
\* hints are those of an earlier call on this graph leaves the graph unchanged.
C2_FirstWriteWins ==
    /\ [](\A w \in first_write : w.first => CarriesFirstWrite(w))
    /\ [][(/\ call'.op = "add_triple"
           /\ n_calls' = n_calls + 1
           /\ \E w \in first_write : TextAndHints(w.triple) = TextAndHints(call'.triple))
          => graph' = graph]_vars

\* a triple was added again with another confidence, source and timestamp than
\* its first call had, and the edge carries the values of the first call
C2_Witness ==
    /\ call.op = "add_triple"
    /\ \E w \in first_write :
           /\ w.first
           /\ TextAndHints(w.triple) = TextAndHints(call.triple)
           /\ w.triple.confidence # call.triple.confidence
           /\ w.triple.extraction_timestamp # call.triple.extraction_timestamp
           /\ w.article_uri # call.article_uri
           /\ CarriesFirstWrite(w)
    /\ n_calls = MaxGraphOps

----
\* Merge runs on one master file: each process reads the file, merges its groups
\* in memory and writes the file back, step by step; no lock is taken anywhere in
\* normalize_predicates.py, merge_predicate_duplicates.py or predicate_normalizer.py

Procs == {1, 2}

MergeKinds == {"update_master_dictionary", "normalize_batch"}

GroupsOther == << Group(<<"i">>, << <<"c">> >>, "event") >>

MergeInputs == {GroupsNew, GroupsOther, GroupsSharedMember}

InitMerge ==
    /\ InitOver(SrcClean)
    /\ master_file = InitialMaster
    /\ predicates = PredicateNormalizer(InitialMaster).predicates
    /\ alias_to_id = PredicateNormalizer(InitialMaster).alias_to_id
    /\ \E kind \in [Procs -> MergeKinds], groups \in [Procs -> MergeInputs] :
           procs = [p \in Procs |->
                       [pc |-> "start", kind |-> kind[p], groups |-> groups[p],
                        before |-> NoMaster, data |-> << >>, pos |-> 0]]
    /\ corpus = << >>
    /\ rewrite_mapping = << >>
    /\ processors = << >>
    /\ _resolver = << >>
    /\ _normalizer = << >>

MergeFrame ==
    UNCHANGED <<loader, resolverVars, catalogVars, graphVars, n_calls, rewriteVars, processorVars>>

\* json.load of the file and the merge in memory; a file that is not complete
\* JSON raises and ends the run
ReadAndMerge(p) ==
    /\ procs[p].pc = "start"
    /\ procs' = [procs EXCEPT ![p] =
           IF master_file.exists /\ ~master_file.complete
           THEN [@ EXCEPT !.pc = "crashed"]
           ELSE [@ EXCEPT !.pc = "loaded",
                          !.data = merged_data(procs[p].kind, master_file,
                                               procs[p].groups)]]
    /\ call' = [op |-> "read", proc |-> p]
    /\ UNCHANGED master_file
    /\ MergeFrame

\* open(master_file, 'w')
OpenForWrite(p) ==
    /\ procs[p].pc = "loaded"
    /\ master_file' = open_w(master_file)
    /\ procs' = [procs EXCEPT ![p] = [@ EXCEPT !.pc = "writing", !.before = master_file,
                                                !.pos = 0]]
    /\ call' = [op |-> "open", proc |-> p]
    /\ MergeFrame

\* json.dump writes the next entry
WriteEntry(p) ==
    /\ procs[p].pc = "writing"
    /\ procs[p].pos < Len(procs[p].data)
    /\ master_file' = write_at(master_file, procs[p].pos + 1, procs[p].data[procs[p].pos + 1])
    /\ procs' = [procs EXCEPT ![p] = [@ EXCEPT !.pos = @ + 1]]
    /\ call' = [op |-> "write", proc |-> p]
    /\ MergeFrame

\* json.dump writes the closing brackets and the with block closes the file
CloseFile(p) ==
    /\ procs[p].pc = "writing"
    /\ procs[p].pos = Len(procs[p].data)
    /\ master_file' = close(master_file, procs[p].pos)
    /\ procs' = [procs EXCEPT ![p] = [@ EXCEPT !.pc = "done"]]
    /\ call' = [op |-> "close", proc |-> p]
    /\ MergeFrame

\* the write fails or the process is interrupted between open and close (disk
\* full, I/O error, kill): what was written stays
WriteFails(p) ==
    /\ procs[p].pc = "writing"
    /\ procs' = [procs EXCEPT ![p] = [@ EXCEPT !.pc = "failed"]]
    /\ call' = [op |-> "fail", proc |-> p]
    /\ UNCHANGED master_file
    /\ MergeFrame

NextMerge ==
    \E p \in Procs :
        \/ ReadAndMerge(p)
        \/ OpenForWrite(p)
        \/ WriteEntry(p)
        \/ CloseFile(p)
        \/ WriteFails(p)

SpecMerge == InitMerge /\ [][NextMerge]_vars

----
\* Properties of the persistence of the catalog

\* C9: the catalog is persisted atomically.  When a write has failed or was
\* interrupted (and no other run has touched the file), the master file holds the
\* complete catalog it held before the write or the complete new catalog.
C9_WriteIsAtomic ==
    \A p \in Procs :
        (/\ procs[p].pc = "failed"
         /\ \A q \in Procs \ {p} : procs[q].pc \in {"start", "loaded"})
        => \/ master_file = procs[p].before
           \/ master_file = MasterFile(procs[p].data)

FileIds == {master_file.predicates[i].id : i \in 1..Len(master_file.predicates)}

\* the ids that the run of process p sets out to add
ProposedIds(p) ==
    {(IF procs[p].kind = "update_master_dictionary"
      THEN derive_id_script(procs[p].groups[k].canonical)
      ELSE derive_id(procs[p].groups[k].canonical)) : k \in 1..Len(procs[p].groups)}

\* C10: concurrent merge runs are serialized.  When both runs have completed,
\* the master file is complete, holds the entry of every id that either run
\* added, and holds no id twice.
C10_NoLostEntry ==
    (\A p \in Procs : procs[p].pc = "done") =>
        /\ master_file.complete
        /\ \A p \in Procs : ProposedIds(p) \subseteq FileIds
        /\ \A i \in 1..Len(master_file.predicates) : \A j \in 1..Len(master_file.predicates) :
               master_file.predicates[i].id = master_file.predicates[j].id => i = j

----
\* The retroactive rewrite of an RDF file, run after run on its own output

MaxRewrites == 2

LabelLine(label) ==
    <<" ", "newskg:hasLabel", " ", "\"">> \o label \o <<"\"@ja", " ", ";">>

RelationLine(pred_id) == <<"s", " ", "newskg:rel_">> \o pred_id \o <<" ", "o", " ", ".">>

Pred1 == <<"p","r","e","d","_","1">>
Pred2 == <<"p","r","e","d","_","2">>

RdfLines ==
    { LabelLine(<<"a">>), LabelLine(<<"b">>), RelationLine(Pred1), RelationLine(Pred2),
      <<"s", " ", "a", " ", "o", " ", ".">> }

\* the files of one or two lines
Corpora == {<<l>> : l \in RdfLines} \cup {<<l1, l2>> : l1 \in RdfLines, l2 \in RdfLines}

Dict1(k, v) == << [k |-> k, v |-> v] >>
Dict2(k1, v1, k2, v2) == << [k |-> k1, v |-> v1], [k |-> k2, v |-> v2] >>

\* entity_normalization_mapping.json: {entity_type: {original: normalized}}; in
\* the second and third a normalized label is the original text of another pair
LabelMappings ==
    { Dict1(T_person, Dict1(<<"a">>, <<"b">>)),
      Dict1(T_person, Dict2(<<"a">>, <<"b">>, <<"b">>, <<"c">>)),
      Dict1(T_person, Dict2(<<"b">>, <<"c">>, <<"a">>, <<"b">>)),
      Dict2(T_person, Dict1(<<"a">>, <<"a">>), T_organization, Dict1(<<"b">>, <<"c">>)) }

\* predicate master files whose aliases carry hashed predicate ids
MasterFiles ==
    { MasterFile(<< PredicateEntry(<<"v">>, <<"v">>, << Pred1, <<"g">> >>, "diplomacy") >>),
      MasterFile(<< PredicateEntry(<<"v">>, <<"v">>, << Pred1, Pred2 >>, "diplomacy") >>),
      MasterFile(<< PredicateEntry(<<"v">>, <<"v">>, << Pred2 >>, "diplomacy"),
                    PredicateEntry(Pred2, <<"w">>, << Pred1 >>, "other") >>) }

InitRewrite ==
    /\ InitOver(SrcClean)
    /\ master_file = InitialMaster
    /\ predicates = PredicateNormalizer(InitialMaster).predicates
    /\ alias_to_id = PredicateNormalizer(InitialMaster).alias_to_id
    /\ processors = << >>
    /\ _resolver = << >>
    /\ _normalizer = << >>
    /\ procs = << >>
    /\ corpus \in Corpora
    /\ \/ \E m \in LabelMappings : rewrite_mapping = [rewrite |-> "label", map |-> m]
       \/ \E f \in MasterFiles :
              rewrite_mapping = [rewrite |-> "predicate", map |-> load_predicate_mapping(f)]

\* one run of apply_normalization.py or apply_predicate_normalization.py; the
\* output file is the input of the next run
Rewrite ==
    /\ n_calls < MaxRewrites
    /\ LET r == IF rewrite_mapping.rewrite = "label"
                THEN apply_normalization_to_rdf(corpus, rewrite_mapping.map)
                ELSE replace_predicates_in_rdf(corpus, rewrite_mapping.map)
       IN  /\ corpus' = r.lines
           /\ call' = [op |-> "rewrite", total_replacements |-> r.total_replacements,
                       before |-> corpus, run |-> n_calls + 1]
    /\ n_calls' = n_calls + 1
    /\ UNCHANGED <<loader, resolverVars, catalogVars, master_file, graphVars, procs,
                   rewrite_mapping, processorVars>>

NextRewrite == Rewrite

SpecRewrite == InitRewrite /\ [][NextRewrite]_vars

----
\* Properties of the retroactive rewrite

\* C11: the rewrite is idempotent.  A run with the same mapping on the output of
\* an earlier run performs zero replacements and leaves the file unchanged, for
\* the label rewrite and for the predicate rewrite.
C11_RewriteIdempotent ==
    (call.op = "rewrite" /\ call.run >= 2) =>
        /\ call.total_replacements = 0
        /\ corpus = call.before

----
\* Properties of the round trip of the master file

GroupIds(groups) == {derive_id(groups[k].canonical) : k \in 1..Len(groups)}

\* C12: the master file round-trips losslessly through load, merge and save.  A
\* load holds the entries of the file; after a batch merge that saved, a fresh
\* load of the file reconstructs exactly the entries held in memory, and every
\* entry whose id no group of the merge derives is the one that was loaded; a run
\* of the update script keeps every entry of the file as it was.
C12_MasterRoundTrips ==
    [][/\ (call'.op = "load_master" /\ n_calls' = n_calls + 1) =>
              PyValues(predicates') =
                  [i \in 1..Len(master_file.predicates) |-> from_json(master_file.predicates[i])]
       /\ (call'.op = "normalize_batch" /\ call'.saved /\ n_calls' = n_calls + 1) =>
              /\ PredicateNormalizer(master_file').predicates = predicates'
              /\ \A i \in 1..Len(predicates) :
                     predicates[i].k \notin GroupIds(call'.groups) =>
                         \E j \in 1..Len(master_file'.predicates) :
                             from_json(master_file'.predicates[j]) = predicates[i].v
       /\ (call'.op = "update_master_dictionary" /\ n_calls' = n_calls + 1) =>
              \A i \in 1..Len(master_file.predicates) :
                  /\ i <= Len(master_file'.predicates)
                  /\ master_file'.predicates[i] = master_file.predicates[i]]_vars

\* a batch merge added a new entry to a catalog loaded from a file with an
\* entry that has no category, and saved; the file holds both and a fresh load
\* gives the entries in memory
C12_Witness ==
    /\ call.op = "normalize_batch"
    /\ call.saved
    /\ call.groups = GroupsNew
    /\ PyHas(predicates, <<"u">>)
    /\ PyGet(predicates, <<"u">>).category = "other"
    /\ PyHas(predicates, <<"h">>)
    /\ Len(master_file.predicates) = Len(predicates)
    /\ PredicateNormalizer(master_file).predicates = predicates

----
\* resolve and normalize over dictionaries and catalogs with empty texts

\* a dictionary with an empty label and empty aliases
SrcEmptyTexts ==
    [organizations |-> << Raw(<<"o","1">>, << >>, << << >> >>) >>,
     persons |-> << Raw(<<"p","1">>, <<"m">>, << << >>, <<"n">> >>) >>,
     places |-> << >>]

\* a master file with an empty label and an empty alias
EmptyTextMaster ==
    MasterFile(<< PredicateEntry(<<"v">>, << >>, << << >>, <<"g">> >>, "other") >>)

GroupsEmptyMember == << Group(<<"h">>, << << >>, <<"a">> >>, "action") >>

TotalTexts == { << >>, <<" ">>, <<"n">>, <<"w">>, <<"m","U6C0F">>, <<"U6C0F">> }

TotalPredicates == { << >>, <<"g">>, <<"z">> }

InitTotal ==
    /\ \E src \in {SrcClean, SrcEmptyTexts} : InitOver(src)
    /\ master_file \in {NoMaster, InitialMaster, EmptyTextMaster}
    /\ predicates = PredicateNormalizer(master_file).predicates
    /\ alias_to_id = PredicateNormalizer(master_file).alias_to_id
    /\ procs = << >>
    /\ corpus = << >>
    /\ rewrite_mapping = << >>
    /\ processors = << >>
    /\ _resolver = << >>
    /\ _normalizer = << >>

TotalOutcomes == {[ok |-> TRUE, groups |-> groups] : groups \in {GroupsNew, GroupsEmptyMember}}

TotalBatch == << <<"a">>, <<"b">>, <<"c">>, <<"d">>, <<"e">>, << >> >>

NextTotal ==
    \/ \E text \in TotalTexts, hint \in TypeHints : Resolve(1, text, hint)
    \/ \E p \in TotalPredicates : Normalize(p)
    \/ \E llm \in TotalOutcomes : NormalizeBatch(TotalBatch, llm)

SpecTotal == InitTotal /\ [][NextTotal]_vars

Confidences == {0, 50, 70, 75, 80, 90, 100}

----
\* Loading the dictionary, from well-formed and malformed files

MaxLoads == 2

OrgFiles ==
    { JsonFile(TRUE, << Raw(<<"o","1">>, <<"x","y">>, << <<"q">> >>) >>),
      JsonFile(TRUE, << Raw(<<"o","1">>, <<"x","y">>, << >>), [id |-> <<"o","2">>] >>),
      JsonFile(FALSE, << >>) }

PersonFiles ==
    { JsonFile(TRUE, << Raw(<<"p","1">>, <<"m">>, << <<"n">> >>) >>),
      JsonFile(TRUE, << Raw(<<"p","1">>, <<"m">>, << >>), [label |-> <<"r">>],
                        Raw(<<"p","3">>, <<"s">>, << >>) >>),
      JsonFile(FALSE, << >>) }

PlaceFiles ==
    { JsonFile(TRUE, << >>),
      JsonFile(TRUE, << Raw(<<"l","1">>, <<"t">>, << >>) >>),
      JsonFile(FALSE, << >>) }

Directories ==
    {[organizations |-> o, persons |-> p, places |-> l] :
         o \in OrgFiles, p \in PersonFiles, l \in PlaceFiles}

WellFormedFile(file) ==
    /\ file.parses
    /\ \A i \in 1..Len(file.records) : {"id", "label"} \subseteq DOMAIN file.records[i]

WellFormed(dir) ==
    WellFormedFile(dir.organizations) /\ WellFormedFile(dir.persons) /\ WellFormedFile(dir.places)

\* the process starts: the module-level _loader is None
InitLoad ==
    /\ loader = None
    /\ new_entities = [i \in Instances |-> << >>]
    /\ call = NoCall
    /\ resolve_log = [i \in Instances |-> {}]
    /\ n_calls = 0
    /\ unknown_predicates = << >>
    /\ graph = {}
    /\ entity_cache = {}
    /\ triple_cache = {}
    /\ predicate_uris = << >>
    /\ first_write = {}
    /\ master_file = NoMaster
    /\ predicates = << >>
    /\ alias_to_id = << >>
    /\ procs = << >>
    /\ corpus = << >>
    /\ rewrite_mapping = << >>
    /\ processors = << >>
    /\ _resolver = << >>
    /\ _normalizer = << >>

\* one call of get_loader() while the default directory holds the files dir
GetLoader(dir) ==
    /\ n_calls < MaxLoads
    /\ loader' = get_loader(loader, dir)._loader
    /\ call' = [op |-> "get_loader", dir |-> dir, constructed |-> loader = None,
                raised |-> get_loader(loader, dir).raised,
                ret |-> get_loader(loader, dir).ret,
                discarded |-> get_loader(loader, dir).discarded]
    /\ n_calls' = n_calls + 1
    /\ UNCHANGED <<resolverVars, catalogVars, master_file, graphVars, procs, rewriteVars, processorVars>>

\* one evaluation of DictionaryLoader(dir)
NewLoader(dir) ==
    /\ n_calls < MaxLoads
    /\ call' = [op |-> "DictionaryLoader", dir |-> dir, constructed |-> TRUE,
                raised |-> new_loader(dir).raised,
                ret |-> new_loader(dir).ret,
                discarded |-> new_loader(dir).discarded]
    /\ n_calls' = n_calls + 1
    /\ UNCHANGED <<loader, resolverVars, catalogVars, master_file, graphVars, procs,
                   rewriteVars, processorVars>>

NextLoad ==
    \/ \E dir \in Directories : GetLoader(dir)
    \/ \E dir \in Directories : NewLoader(dir)

SpecLoad == InitLoad /\ [][NextLoad]_vars

Entries(ld) == Len(ld.organizations) + Len(ld.persons) + Len(ld.places)

\* a loader that holds every entry of every file of a well-formed directory
Complete(ld) ==
    /\ WellFormed(ld.dictionaries_dir)
    /\ ld = [DictionaryLoader(Parsed(ld.dictionaries_dir)) EXCEPT
                !.dictionaries_dir = ld.dictionaries_dir]

\* C15: loading the dictionary from a malformed source fails as an error and is
\* never partially applied: a construction over a directory with a file that
\* does not parse or an object without id or label raises and returns no
\* instance, and every loader that is returned or held by the get_loader
\* singleton holds all entries of a well-formed directory.
C15_NoPartialLoader ==
    /\ loader # None => Complete(loader)
    /\ call.op \in {"get_loader", "DictionaryLoader"} =>
           /\ (call.constructed /\ ~WellFormed(call.dir)) => (call.raised /\ call.ret = None)
           /\ call.ret # None => Complete(call.ret)
           /\ call.raised => call.ret = None

\* get_loader raised on a directory whose first file loaded and whose second is
\* malformed: the dropped object held entries, the singleton is still None
C15_Witness ==
    /\ call.op = "get_loader"
    /\ call.raised
    /\ WellFormedFile(call.dir.organizations)
    /\ Entries(call.discarded) >= 2
    /\ loader = None

----
\* One pipeline run: triples are added to the graph, texts are resolved, and the
\* predicates of the run are normalized in a batch (processor_v2.py, process_all
\* and normalize_all_predicates)

\* a master file whose entry has a label that differs from its id, and the id as
\* an alias
CasedMaster ==
    MasterFile(<< PredicateEntry(<<"h">>, <<"H">>, << <<"h">> >>, "action") >>)

PipelineBatch == << <<"g">>, <<"h">>, <<"a">>, <<"b">>, <<"c">>, <<"d">>, <<"e">> >>

\* chat_json raises; it answers and the catalog is saved; it answers and the
\* write of the catalog raises
PipelineOutcomes ==
    { [ok |-> FALSE],
      [ok |-> TRUE, groups |-> GroupsNew],
      [ok |-> TRUE, groups |-> GroupsNew, save_raises |-> TRUE] }

PipelineTriples ==
    { <<<<"m">>, T_person, <<"v">>, <<"x","y">>, T_organization>>,
      <<<<"w">>, T_other, <<"z">>, <<"x","y">>, T_organization>> }

InitPipeline ==
    /\ InitOver(SrcClean)
    /\ master_file \in {InitialMaster, CasedMaster}
    /\ predicates = PredicateNormalizer(master_file).predicates
    /\ alias_to_id = PredicateNormalizer(master_file).alias_to_id
    /\ procs = << >>
    /\ corpus = << >>
    /\ rewrite_mapping = << >>
    /\ processors = << >>
    /\ _resolver = << >>
    /\ _normalizer = << >>

PipelineInputs ==
    {[triple |-> Triple(x[1], x[2], x[3], x[4], x[5], v[1], v[2]), article_uri |-> v[3]] :
         x \in PipelineTriples, v \in Provenances}

NextPipeline ==
    \/ \E t \in PipelineInputs : AddTriple(t.triple, t.article_uri)
    \/ \E text \in {<<"n">>, <<"w">>}, hint \in TypeHints : Resolve(1, text, hint)
    \/ \E llm \in PipelineOutcomes : NormalizeBatch(PipelineBatch, llm)

SpecPipeline == InitPipeline /\ [][NextPipeline]_vars

\* C16: a failure to write the catalog is fatal for the operation: when
\* save_master fails during a batch merge, normalize_batch reports the failure to
\* its caller and does not return a normal result.
C16_SaveFailureIsReported ==
    (call.op = "normalize_batch" /\ call.error = "save") => call.raised

\* p is known to the catalog: normalize finds an entry for it
Known(self, p) ==
    \/ PyHas(self.alias_to_id, p)
    \/ \E i \in 1..Len(self.alias_to_id) :
           In(self.alias_to_id[i].k, p) \/ In(p, self.alias_to_id[i].k)

\* C17: when the LLM call fails inside normalize_batch the call still returns:
\* every predicate of the batch that the catalog knows is mapped to the label of
\* its entry and every other one to itself; the catalog in memory, the master
\* file and the graph are as before the call.
C17_LlmFailureFallsBack ==
    [][(call'.op = "normalize_batch" /\ n_calls' = n_calls + 1 /\ call'.error = "llm") =>
          /\ ~call'.raised
          /\ \A i \in 1..Len(call'.batch) :
                 PyGet(call'.ret, call'.batch[i]) =
                     IF Known(Normalizer, call'.batch[i])
                     THEN normalize(Normalizer, call'.batch[i]).ret[2]
                     ELSE call'.batch[i]
          /\ predicates' = predicates
          /\ alias_to_id' = alias_to_id
          /\ master_file' = master_file
          /\ graph' = graph]_vars

\* C19: the per-triple operations (resolve, the two resolutions of a triple,
\* add_triple) leave the dictionary with its text index, the catalog entries,
\* the alias index and the master file as they were; of the normalizer only the
\* unknown-predicate counter may change.
C19_PerTripleOpsReadOnly ==
    [][(call'.op \in {"resolve", "add_triple"} /\ n_calls' = n_calls + 1) =>
          /\ loader' = loader
          /\ predicates' = predicates
          /\ alias_to_id' = alias_to_id
          /\ master_file' = master_file]_vars

\* add_triple minted an entity and counted a predicate the catalog does not
\* know; the catalog is the one that was loaded
C19_Witness ==
    /\ call.op = "add_triple"
    /\ call.triple.predicate = <<"z">>
    /\ CounterGet(unknown_predicates, <<"z">>) >= 1
    /\ new_entities[1] # << >>
    /\ predicates = PredicateNormalizer(master_file).predicates
    /\ ~PyHas(alias_to_id, <<"z">>)

----
\* Several TriplePipelineProcessor instances in one process.  A resolver object
\* is named by its address, an element of Instances; new_entities[a] is the
\* registry of the resolver at address a.  The normalizer at address 1 is the
\* one held in predicates, alias_to_id and unknown_predicates.

MaxProcessorOps == 4

\* get_resolver(): the module-level resolver (None, or <<a>> for the object at
\* address a), constructed at address fresh by the first call
get_resolver(resolver, fresh) ==
    IF resolver = None THEN [ret |-> fresh, _resolver |-> <<fresh>>]
    ELSE [ret |-> resolver[1], _resolver |-> resolver]

\* get_normalizer(): the module-level normalizer, constructed at address fresh by
\* the first call
get_normalizer(normalizer, fresh) ==
    IF normalizer = None THEN [ret |-> fresh, _normalizer |-> <<fresh>>]
    ELSE [ret |-> normalizer[1], _normalizer |-> normalizer]

\* TriplePipelineProcessor.__init__: the resolver and the normalizer it is given
\* (addresses), and a generator of its own
TriplePipelineProcessor(entity_resolver, predicate_normalizer) ==
    [entity_resolver |-> entity_resolver, predicate_normalizer |-> predicate_normalizer,
     rdf_generator |-> TripleBasedRDFGenerator]

InitProcessors ==
    /\ InitOver(SrcClean)
    /\ master_file = InitialMaster
    /\ predicates = PredicateNormalizer(InitialMaster).predicates
    /\ alias_to_id = PredicateNormalizer(InitialMaster).alias_to_id
    /\ procs = << >>
    /\ corpus = << >>
    /\ rewrite_mapping = << >>
    /\ processors = << >>
    /\ _resolver = None
    /\ _normalizer = None

\* TriplePipelineProcessor() is evaluated; an object constructed now gets the
\* next free address
NewProcessor ==
    /\ n_calls < MaxProcessorOps
    /\ Len(processors) < Cardinality(Instances)
    /\ processors' = Append(processors,
           TriplePipelineProcessor(get_resolver(_resolver, Len(processors) + 1).ret,
                                   get_normalizer(_normalizer, Len(processors) + 1).ret))
    /\ _resolver' = get_resolver(_resolver, Len(processors) + 1)._resolver
    /\ _normalizer' = get_normalizer(_normalizer, Len(processors) + 1)._normalizer
    /\ call' = [op |-> "TriplePipelineProcessor"]
    /\ n_calls' = n_calls + 1
    /\ UNCHANGED <<loader, resolverVars, catalogVars, master_file, graphVars, procs,
                   rewriteVars>>

\* processor p adds a triple to its graph (process_all, line 108)
ProcessTriple(p, triple, article_uri) ==
    /\ n_calls < MaxProcessorOps
    /\ p \in 1..Len(processors)
    /\ processors[p].predicate_normalizer = 1
    /\ LET r == add_triple(processors[p].rdf_generator,
                           [loader |-> loader,
                            new_entities |-> new_entities[processors[p].entity_resolver]],
                           Normalizer, triple, article_uri)
       IN  /\ processors' = [processors EXCEPT ![p].rdf_generator = r.self]
           /\ new_entities' =
                  [new_entities EXCEPT ![processors[p].entity_resolver] = r.new_entities]
           /\ predicates' = r.normalizer.predicates
           /\ alias_to_id' = r.normalizer.alias_to_id
           /\ unknown_predicates' = r.normalizer.unknown_predicates
           /\ call' = [op |-> "process_triple", processor |-> p, triple |-> triple,
                       ret |-> r.ret]
    /\ n_calls' = n_calls + 1
    /\ UNCHANGED <<loader, resolve_log, master_file, graphVars, procs, rewriteVars,
                   _resolver, _normalizer>>

NextProcessors ==
    \/ NewProcessor
    \/ \E p \in Instances, t \in PipelineInputs : ProcessTriple(p, t.triple, t.article_uri)

SpecProcessors == InitProcessors /\ [][NextProcessors]_vars

\* C18: state is owned per instance: two TriplePipelineProcessor instances of
\* one process do not share the new-entity registry, the unknown-predicate
\* counter or the catalog object; what one processor does leaves the registry
\* and the counter of the other as they were.
C18_ProcessorsShareNothing ==
    /\ \A p, q \in 1..Len(processors) :
           p # q => /\ processors[p].entity_resolver # processors[q].entity_resolver
                    /\ processors[p].predicate_normalizer # processors[q].predicate_normalizer
    /\ call.op = "process_triple" =>
           \A q \in (1..Len(processors)) \ {call.processor} :
               /\ new_entities[processors[q].entity_resolver] = << >>
               /\ unknown_predicates = << >>
                      \/ processors[q].predicate_normalizer
                             # processors[call.processor].predicate_normalizer

----
\* The scan of a text for dictionary entries (find_entities_in_text)

MaxScans == 2

\* keys of two lengths that overlap one another in a text
SrcOverlappingKeys ==
    [organizations |-> << Raw(<<"o","1">>, <<"a","b">>, << <<"b">> >>) >>,
     persons |-> << Raw(<<"p","1">>, <<"b","c">>, << <<"c">>, << >> >>) >>,
     places |-> << >>]

\* an entry with an empty label: the empty string is a key of the text index
SrcEmptyLabel ==
    [organizations |-> << Raw(<<"o","1">>, << >>, << <<"a">> >>) >>,
     persons |-> << Raw(<<"p","1">>, <<"a","b">>, << >>) >>,
     places |-> << >>]

ScanSources == {SrcOverlappingKeys, SrcEmptyLabel}

ScanChars == {"a", "b", "c"}

\* every text of up to three characters
ScanTexts ==
    {<< >>} \cup {<<x>> : x \in ScanChars} \cup {<<x, y>> : x \in ScanChars, y \in ScanChars}
        \cup {<<x, y, z>> : x \in ScanChars, y \in ScanChars, z \in ScanChars}

InitScan ==
    /\ \E src \in ScanSources : InitOver(src)
    /\ master_file = NoMaster
    /\ predicates = PredicateNormalizer(NoMaster).predicates
    /\ alias_to_id = PredicateNormalizer(NoMaster).alias_to_id
    /\ procs = << >>
    /\ corpus = << >>
    /\ rewrite_mapping = << >>
    /\ processors = << >>
    /\ _resolver = << >>
    /\ _normalizer = << >>

\* one call of DictionaryLoader.find_entities_in_text
FindEntitiesInText(text) ==
    /\ n_calls < MaxScans
    /\ call' = [op |-> "find_entities_in_text", text |-> text,
                ret |-> find_entities_in_text(loader, text)]
    /\ n_calls' = n_calls + 1
    /\ UNCHANGED <<loader, resolverVars, catalogVars, master_file, graphVars, procs,
                   rewriteVars, processorVars>>

NextScan == \E text \in ScanTexts : FindEntitiesInText(text)

SpecScan == InitScan /\ [][NextScan]_vars

\* the spans [a[1], a[2]) and [b[1], b[2]) overlap
Overlaps(a, b) == a[1] < b[2] /\ a[2] > b[1]

\* the texts under which an entry is registered: its label and its non-empty aliases
Registered(entry) == {entry.label} \cup (AliasSet(entry) \ {<< >>})

\* C21: find_entities_in_text returns spans that are pairwise non-overlapping,
\* each span [start, end) lies in the text and text[start:end] is a registered
\* label or alias of the entry returned with it, and the list is ordered by start
\* position, for every text and every dictionary.
C21_SpansDisjointRegisteredOrdered ==
    call.op = "find_entities_in_text" =>
        /\ \A i \in 1..Len(call.ret) :
               /\ 0 <= call.ret[i][1]
               /\ call.ret[i][1] <= call.ret[i][2]
               /\ call.ret[i][2] <= Len(call.text)
               /\ SubSeq(call.text, call.ret[i][1] + 1, call.ret[i][2])
                      \in Registered(call.ret[i][3])
        /\ \A i, j \in 1..Len(call.ret) :
               i < j => /\ ~Overlaps(call.ret[i], call.ret[j])
                        /\ call.ret[i][1] <= call.ret[j][1]

\* in "cab" the longer key "ab" is found first and lies behind the shorter "c";
\* the occurrence of "b" inside it is not returned
C21_Witness ==
    /\ call.op = "find_entities_in_text"
    /\ call.text = <<"c","a","b">>
    /\ Len(call.ret) = 2
    /\ call.ret[1][1] = 0
    /\ call.ret[2][1] = 1
    /\ call.ret[2][2] = 3
    /\ find_entities_in_text_unsorted(loader, call.text) # call.ret

\* C22: the scan is greedy, longest first: every occurrence of a key of the text
\* index in the text is in the result, or overlaps a span of the result whose key
\* is at least as long; no occurrence is given up for a strictly shorter match.
C22_GreedyLongestFirst ==
    call.op = "find_entities_in_text" =>
        \A key \in PyKeySet(loader.text_to_entity) : \A p \in 0..Len(call.text) :
            OccursAt(key, call.text, p + 1) =>
                \/ \E i \in 1..Len(call.ret) :
                       call.ret[i] = <<p, p + Len(key), PyGet(loader.text_to_entity, key)>>
                \/ \E i \in 1..Len(call.ret) :
                       /\ Overlaps(<<p, p + Len(key)>>, call.ret[i])
                       /\ call.ret[i][2] - call.ret[i][1] >= Len(key)

\* in "abc" the occurrence of "bc" overlaps the span of "ab", a key of the same
\* length tried before it, and is not returned; "c" behind the span is
C22_Witness ==
    /\ call.op = "find_entities_in_text"
    /\ call.text = <<"a","b","c">>
    /\ PyHas(loader.text_to_entity, <<"b","c">>)
    /\ Len(call.ret) = 2
    /\ call.ret[1][2] = 2
    /\ call.ret[2][1] = 2
    /\ call.ret[2][3].id = <<"p","1">>

----
\* The substring pass of resolve and the minting of new entities

\* two organizations that both qualify for "xy", the first with the lower
\* confidence; a person whose id is the word "w"
SrcOrdered ==
    [organizations |-> << Raw(<<"o","1">>, <<"x","y","z">>, << >>),
                          Raw(<<"o","2">>, <<"y">>, << <<"k">> >>) >>,
     persons |-> << Raw(<<"w">>, <<"m">>, << <<"n">> >>) >>,
     places |-> << >>]

\* texts that match by containment, a text that matches with its honorific
\* stripped, and texts that match nothing: words, a text ending in each kind of
\* suffix, in U+6C0F (an honorific that is a person indicator) and in U+69D8 (an
\* honorific that is not)
MatchTexts ==
    { <<"x","y">>, <<"k","z">>, <<"n","U6C0F">>, <<"w">>, <<"Q">>, <<"q","U515A">>,
      <<"q","U770C">>, <<"q","U6C0F">>, <<"q","U69D8">> }

InitMatch ==
    /\ InitOver(SrcOrdered)
    /\ master_file = NoMaster
    /\ predicates = PredicateNormalizer(NoMaster).predicates
    /\ alias_to_id = PredicateNormalizer(NoMaster).alias_to_id
    /\ procs = << >>
    /\ corpus = << >>
    /\ rewrite_mapping = << >>
    /\ processors = << >>
    /\ _resolver = << >>
    /\ _normalizer = << >>

NextMatch == \E text \in MatchTexts, hint \in TypeHints : Resolve(1, text, hint)

SpecMatch == InitMatch /\ [][NextMatch]_vars

\* entry k of the dictionary files and text t contain one another: by the label
\* or by an alias
Qualifies(src, k, t) ==
    \/ In(AllRaw(src)[k].label, t)
    \/ In(t, AllRaw(src)[k].label)
    \/ \E a \in AliasSet(AllRaw(src)[k]) : In(a, t) \/ In(t, a)

\* the confidence of the first of the three tests that entry k passes for t
FirstTest(src, k, t) ==
    IF In(AllRaw(src)[k].label, t) THEN 80
    ELSE IF In(t, AllRaw(src)[k].label) THEN 70
    ELSE 75

\* neither the trimmed text t nor t with its honorific stripped is a key of the
\* text index: resolve comes to the substring pass
ReachesScan(ld, t) ==
    /\ find_entity(ld, t) = << >>
    /\ clean_entity_text(t) = t \/ find_entity(ld, clean_entity_text(t)) = << >>

\* C23: the substring pass scans the entries in load order and the first entry
\* that qualifies wins: the entry returned is the earliest entry in load order
\* whose label is contained in the text (0.8), whose label contains the text
\* (0.7), or one of whose aliases and the text contain one another (0.75), with
\* the confidence of the first of these tests that this entry passes, also when
\* a later entry would qualify with a higher confidence.
C23_FirstQualifyingEntryWins ==
    (call.op = "resolve" /\ ~IsBlank(call.text)
        /\ ReachesScan(loader, Strip(call.text))) =>
        LET src == loader.dictionaries_dir
            t == Strip(call.text)
            Q == {k \in 1..Len(AllRaw(src)) : Qualifies(src, k, t)}
        IN  Q # {} =>
                \E k \in Q :
                    /\ \A j \in Q : k <= j
                    /\ IsEntry(call.ret, src, k, FirstTest(src, k, t))

\* "xy" is contained in the label of the first organization (0.7) and contains
\* the label of the second (0.8): the first is returned, with 0.7
C23_Witness ==
    /\ call.op = "resolve"
    /\ call.text = <<"x","y">>
    /\ Qualifies(loader.dictionaries_dir, 1, call.text)
    /\ Qualifies(loader.dictionaries_dir, 2, call.text)
    /\ FirstTest(loader.dictionaries_dir, 2, call.text) = 80
    /\ call.ret.id = <<"o","1">>
    /\ call.ret.confidence = 70

\* resolve minted an entity for the text of the call
Minted == call.op = "resolve" /\ ~IsBlank(call.text) /\ ~call.ret.is_known

\* the id of an entity minted for text t
MintedId(t) ==
    IF \A i \in 1..Len(t) : t[i] \in WordChars
    THEN Lower(t)
    ELSE <<"e","n","t","i","t","y","_">> \o Md5Hex(t)

HasSuffix(patterns, t) == \E i \in 1..Len(patterns) : EndsWith(t, patterns[i])

Contains(patterns, t) == \E i \in 1..Len(patterns) : In(patterns[i], t)

\* the type of an entity minted for text t under a hint, person being inferred
\* from the presence of one of the given texts
MintedType(t, hint, persons) ==
    IF hint # T_other THEN hint
    ELSE IF HasSuffix(org_patterns, t) THEN T_organization
    ELSE IF HasSuffix(place_patterns, t) THEN T_place
    ELSE IF Contains(persons, t) THEN T_person
    ELSE T_other

C27_MintedIdentityIsFresh ==
    Minted =>
        \A k \in 1..Len(get_all_entries(loader)) :
            /\ <<call.ret.entity_type, call.ret.id>> #
                   <<get_all_entries(loader)[k].entity_type, get_all_entries(loader)[k].id>>
            /\ to_uri(call.ret, NEWSKG) #
                   NEWSKG \o get_all_entries(loader)[k].entity_type \o <<"_">>
                       \o get_all_entries(loader)[k].id

----
\* Properties of the graph across resets, of its direct relations and of its
\* entity nodes (specification SpecGraph)

ObjectsIn(g, node, p) == {x[3] : x \in {y \in g : y[1] = node /\ y[2] = p}}

\* the predicate URIs that the reified edges of the graph use
UsedPredicates == UNION {Objects(e, RDF_predicate) : e \in NewsTriples}

\* C25: after reset() the generator is equivalent to a freshly constructed one
\* over the same resolver and catalog: the graph after the first add_triple
\* that follows a reset is the graph a fresh generator produces for that triple,
\* and in every graph each predicate URI used by an edge has its definition
\* (type rdf:Property and a label).
C25_ResetGivesFreshGenerator ==
    /\ [](\A p \in UsedPredicates :
              /\ <<p, RDF_type, RDF_Property>> \in graph
              /\ ObjectsIn(graph, p, RDFS_label) # {})
    /\ [][(call.op = "reset" /\ call'.op = "add_triple" /\ n_calls' = n_calls + 1) =>
              graph' = add_triple(TripleBasedRDFGenerator, Resolver1, Normalizer,
                                  call'.triple, call'.article_uri).self.graph]_vars

\* the direct relations of the graph: the triples whose predicate is a relation
\* URI (newskg:rel_...)
DirectRelations == {x \in graph : Len(x[2]) >= 2 /\ x[2][2] = "rel_"}

\* C26: after any sequence of add_triple calls, every direct relation (subject
\* URI, predicate URI, object URI) of the graph is backed by a reified NewsTriple
\* with this subject, predicate and object that carries a confidence and an
\* extraction time, also when one subject/predicate/object text is added with
\* different type hints.
C26_EveryRelationIsReified ==
    \A x \in DirectRelations :
        \E e \in NewsTriples :
            /\ x[1] \in Objects(e, RDF_subject)
            /\ x[2] \in Objects(e, RDF_predicate)
            /\ x[3] \in Objects(e, RDF_object)
            /\ Objects(e, NEWSKG \o <<"hasConfidence">>) # {}
            /\ Objects(e, NEWSKG \o <<"extractedAt">>) # {}

EntityProperties == {RDF_type, NEWSKG \o <<"hasLabel">>, NEWSKG \o <<"hasAlias">>}

\* C28: after any sequence of add_triple calls every entity node of the graph
\* has exactly one type and exactly one label, and every labelled node is in the
\* entity cache; add_entity for a URI that is in the cache adds no type, label
\* or alias, so the node keeps what the first mention that resolved to the URI
\* wrote.
C28_EntityNodeWrittenOnce ==
    /\ [](/\ \A n \in entity_cache :
                 /\ Cardinality(Objects(n, RDF_type)) = 1
                 /\ Cardinality(Objects(n, NEWSKG \o <<"hasLabel">>)) = 1
          /\ \A x \in graph : x[2] = NEWSKG \o <<"hasLabel">> => x[1] \in entity_cache)
    /\ [][(call'.op = "add_triple" /\ n_calls' = n_calls + 1) =>
              \A n \in entity_cache : \A p \in EntityProperties :
                  ObjectsIn(graph', n, p) = ObjectsIn(graph, n, p)]_vars

\* the text "w" was minted as a person with the URI of the curated person "w",
\* whose node was written before from its label "m": the node keeps the label
\* "m" and has no alias
C28_Witness ==
    /\ call.op = "add_triple"
    /\ call.triple.subject = <<"w">>
    /\ call.triple.subject_type = T_person
    /\ loader.dictionaries_dir = SrcMintedId
    /\ Objects(NEWSKG \o T_person \o <<"_">> \o <<"w">>, NEWSKG \o <<"hasLabel">>)
           = {Literal(<<"m">>, "ja")}
    /\ Objects(NEWSKG \o T_person \o <<"_">> \o <<"w">>, NEWSKG \o <<"hasAlias">>) = {}
    /\ PyHas(new_entities[1], <<"w">>)

----
\* A catalog reloaded from the file that a merge saved (specification SpecCatalog)

\* C29: after merges (add_predicate calls, including ones that reuse an existing
\* id) followed by save_master, a PredicateNormalizer freshly loaded from the
\* saved file returns from normalize, for every predicate text, the same
\* (id, label) as the in-memory normalizer that performed the save.
C29_ReloadNormalizesAlike ==
    (call.op = "normalize_batch" /\ call.saved) =>
        \A t \in PredicateTexts :
            normalize(PredicateNormalizer(master_file), t).ret = normalize(Normalizer, t).ret

----
\* What a match of resolve rests on (specification SpecTotal)

\* C30: resolve returns a dictionary entry (is_known true) only when the trimmed
\* text, or the text with its honorific stripped, equals a non-empty label or
\* alias of that entry, or when the text and a non-empty label or alias of that
\* entry contain one another; an empty label or alias, or a text that is empty
\* after honorific stripping, never produces a match.
C30_MatchRestsOnNonEmptyText ==
    (call.op = "resolve" /\ call.ret.is_known) =>
        LET src == loader.dictionaries_dir
            t == Strip(call.text)
        IN  \E k \in 1..Len(AllRaw(src)) :
                /\ call.ret.id = AllRaw(src)[k].id
                /\ call.ret.label = AllRaw(src)[k].label
                /\ \E X \in ({AllRaw(src)[k].label} \cup AliasSet(AllRaw(src)[k])) \ {<< >>} :
                       \/ X = t
                       \/ X = clean_entity_text(t)
                       \/ In(X, t)
                       \/ In(t, X)

====
